---------------------------- MODULE Spec2Model ----------------------------
(***************************************************************************)
(* Match lobby / snake draft / result declaration of cogs/match.py and the *)
(* point ledger of utils/stats.py.                                          *)
(*                                                                         *)
(* One Game object (one session) is modelled together with the discord.ui  *)
(* views that hold closures over it.  Every interaction handler is a       *)
(* coroutine: it runs atomically up to its first await that precedes more  *)
(* state-reading code, and the rest of the handler is a separate step      *)
(* (kept in the bag `pend`), so handlers interleave exactly at the awaits. *)
(***************************************************************************)
EXTENDS Integers, Sequences, FiniteSets, Bags, TLC

\* ---------------------------------------------------------------- bounds
\* Spec: every handler, a small guild
NumUsers == 3
MaxLobbyOps == 1
MaxPanels == 1
MaxStarts == 1
MaxPending == 2
MaxSelects == 1
MaxResultViews == 1
\* SpecAdmin: lobby buttons, draft and the admin panels
AdminLobbyOps == 3
AdminPanels == 1
\* SpecDraft: the draft with handlers that overlap at their awaits
DraftUsers == 4
DraftPending == 2
\* SpecRestart: the start button pressed again in the same session
RestartStarts == 2
\* SpecReselect: handlers suspended at an await at one time
ReselectPending == 2
\* SpecTurns: a guild of five whose host presses start three times
TurnUsers == 5
TurnStarts == 3
\* SpecEdits: a guild of four with two admin panels in one game
EditUsers == 4
EditJoined == 3
EditLobbyOps == 1
EditPanels == 2

\* SpecGame: the methods of one Game called directly by GameUsers identities,
\* with slot numbers from 0 to GameSlotArg and NUM_SLOTS, NUM_SLOTS + 1
GameUsers == 6
GameSlotArg == 1

\* SpecRejoin: a guild of three, lobby presses after an admin edit
RejoinUsers == 3
RejoinLobbyOps == 3

\* SpecRegistry: the channels a lobby is started in, the sessions one cog creates,
\* the end handlers suspended at once, and the members who type and press
RegChannels == 2
RegMaxGames == 3
RegPending == 2
RegUsers == 2
\* SpecLedger: the members, the commands and presses handled, the handlers
\* suspended at once, the tiers config.ini gives the role shop and the price
\* of its first tier (tier i costs i times as much), the amount an admin types
LedgerUsers == 2
LedgerOps == 3
LedgerPending == 2
NumTiers == 2
TierUnit == 100
\* SpecHistory: the members of the stats file, the outcomes recorded in a run,
\* how far below HISTORY_MAX the shortest stored history is, and the number of
\* win/loss patterns the stored histories are drawn from
HistUsers == 2
HistOps == 3
HistBelow == 2
HistPatterns == 2
\* SpecCap: a guild large enough to fill the ten slots and the waitlist
CapUsers == 16
CapJoined == 15
CapLobbyOps == 2

\* ------------------------------------------------------ program constants
NUM_SLOTS == 10
WAITLIST_MAX == 5
REPLACE_WAIT_MAX == 5
WIN_REWARD == 5
LOSE_REWARD == 3
MIN_PARTICIPANTS == 2

\* cogs/economy.py
DAILY_REWARD == 300
\* cogs/minigames.py
COIN_ENTRY_COST == 60
COIN_REWARD_ON_HIT == 270
COIN_EXTRA_LOSS_ON_MISS == 180
COIN_MIN_BALANCE_REQUIRED == COIN_ENTRY_COST + COIN_EXTRA_LOSS_ON_MISS
DICE1_ENTRY_COST == 10
DICE1_MIN_BALANCE_REQUIRED == 10
DICE1_REWARD_1HIT == 60
DICE2_ENTRY_COST == 40
DICE2_FAIL_TOTAL_LOSS == 40
DICE2_MIN_BALANCE_REQUIRED == 40
DICE2_REWARD_ANY == 72
DICE2_REWARD_BOTH == 720
DICE3_ENTRY_COST == 100
DICE3_FAIL_TOTAL_LOSS == 1000
DICE3_MIN_BALANCE_REQUIRED == 1000
DICE3_REWARD_1 == 0
DICE3_REWARD_2 == 1000
DICE3_REWARD_3 == 2500
\* cogs/shop.py: the price of every item of POINT_SHOP_ITEMS, and the items
POINT_SHOP_PRICE == 33000
POINT_SHOP_ITEMS == 1 .. 3
POINT_SHOP_DEFAULT_STOCK == [i \in POINT_SHOP_ITEMS |-> 0]

None == 0
\* ctx.author of start_lobby: the host of the session
HostUser == 1
\* members whose guild_permissions.manage_guild is set
Admins == {2}

VARIABLES
    \* what the environment does in a run: the number of guild members (users) and
    \* how many lobby changes, admin panels, start presses, suspended handlers,
    \* result views and overlapping second-captain selections there may be; fixed
    \* by Init
    cfg,
    \* Game fields
    host_id, slots, user_to_slot, waitlist,
    team_captains, teams, pick_order, draft_turn, pick_history, finished,
    \* views and suspended handlers
    flows,          \* captain selection views (Captain1View / Captain2View)
    nStarts,        \* number of times start_team_leader_selection ran
    available,      \* the `players` list of each start_draft call
    prompts,        \* live DraftView messages
    pend,           \* bag of handlers suspended at an await
    kickViews, replaceViews,   \* open KickView / ReplacePickView selections
    nPanels,        \* number of admin panels opened so far
    rvMade,         \* number of ResultViews finish_teams has sent
    rvLive,         \* ResultViews whose buttons are enabled
    rvTimers,       \* disable_buttons_after_timeout tasks still sleeping
    \* utils/stats.py
    ledger, defaultHist,
    \* the last handler that ran and what it answered
    last,
    nLobby,         \* number of lobby button presses that changed the roster
    \* MatchCog registry
    game_counter, games, channel_to_game, active_hosts,
    lobbyViews,     \* the games whose LobbyView message shows enabled buttons
    endPend,        \* bag of LobbyView.end handlers suspended at edit_message
    \* economy, minigames and shops
    member_roles,   \* member.roles: the tiers of the role shop each member holds
    buyPend,        \* bag of RoleShopCog.buy handlers suspended at add_roles
    miniViews,      \* bag of CoinView / DiceView messages with enabled buttons
    stock,          \* the point_shop entry of the stats file
    debits,         \* per member and tier: debits of the price minus refunds
    nOps            \* number of commands and presses of these cogs handled

gameVars == <<host_id, slots, user_to_slot, waitlist, team_captains, teams,
              pick_order, draft_turn, pick_history, finished>>
rosterVars == <<slots, user_to_slot, waitlist>>
draftVars == <<team_captains, teams, pick_order, draft_turn, pick_history>>
viewVars == <<flows, nStarts, available, prompts, pend, kickViews,
              replaceViews, nPanels, rvMade, rvLive, rvTimers>>
ledgerVars == <<ledger, defaultHist>>
regVars == <<game_counter, games, channel_to_game, active_hosts, lobbyViews, endPend>>
shopVars == <<member_roles, buyPend, miniViews, stock, debits, nOps>>
vars == <<cfg, gameVars, viewVars, ledgerVars, last, nLobby, regVars, shopVars>>

Users == 1 .. cfg.users

\* ------------------------------------------------------------- sequences
RECURSIVE SeqRemove(_, _)
\* list.remove(x): drops the first occurrence of x
SeqRemove(s, x) ==
    IF s = <<>> THEN <<>>
    ELSE IF Head(s) = x THEN Tail(s)
    ELSE <<Head(s)>> \o SeqRemove(Tail(s), x)

SeqSet(s) == {s[i] : i \in DOMAIN s}
InSeq(x, s) == x \in SeqSet(s)

\* --------------------------------------------------------- class Game
\* the roster part of a Game as a record, so that the methods compose
Roster == [slots |-> slots, user_to_slot |-> user_to_slot, waitlist |-> waitlist]

\* Game.__init__
NewRoster ==
    [slots |-> [i \in 1 .. NUM_SLOTS |-> None],
     user_to_slot |-> <<>>,
     waitlist |-> <<>>]

\* Game.participants
participants(r) == {r.slots[i] : i \in DOMAIN r.slots} \ {None}

\* Game.first_free_slot
first_free_slot(r) ==
    LET free == {i \in 1 .. NUM_SLOTS : r.slots[i] = None}
    IN  IF free = {} THEN None ELSE CHOOSE i \in free : \A j \in free : i <= j

DictDel(f, k) == [x \in DOMAIN f \ {k} |-> f[x]]
DictSet(f, k, v) == [x \in DOMAIN f \cup {k} |-> IF x = k THEN v ELSE f[x]]

\* Game.remove_from_waitlist
remove_from_waitlist(r, u) ==
    IF InSeq(u, r.waitlist)
    THEN [r EXCEPT !.waitlist = SeqRemove(r.waitlist, u)]
    ELSE r

\* Game.remove_from_slot: the roster afterwards
remove_from_slot(r, u) ==
    IF u \in DOMAIN r.user_to_slot
    THEN [r EXCEPT !.slots = DictSet(r.slots, r.user_to_slot[u], None),
                   !.user_to_slot = DictDel(r.user_to_slot, u)]
    ELSE r

\* Game.remove_from_slot: the value returned
freed_slot(r, u) ==
    IF u \in DOMAIN r.user_to_slot THEN r.user_to_slot[u] ELSE None

\* fault injection for C22: assign_slot without its occupancy check
assign_slot_ok_any(r, u, n) == n \in DOMAIN r.slots

\* Game.assign_slot: whether it succeeds
assign_slot_ok(r, u, n) ==
    /\ n \in DOMAIN r.slots
    /\ ~(r.slots[n] # None /\ r.slots[n] # u)

\* fault injection for C23: assign_slot without the clean-up of the waitlist and
\* of the slot held before
assign_slot_noclean(r, u, n) ==
    IF ~assign_slot_ok(r, u, n) THEN r
    ELSE [r EXCEPT !.slots = DictSet(r.slots, n, u),
                   !.user_to_slot = DictSet(r.user_to_slot, u, n)]

\* Game.assign_slot: the roster afterwards
assign_slot(r, u, n) ==
    IF ~assign_slot_ok(r, u, n) THEN r
    ELSE LET r1 == remove_from_waitlist(r, u)
             r2 == IF u \in DOMAIN r1.user_to_slot
                   THEN [r1 EXCEPT !.slots = DictSet(r1.slots, r1.user_to_slot[u], None),
                                   !.user_to_slot = DictDel(r1.user_to_slot, u)]
                   ELSE r1
         IN  [r2 EXCEPT !.slots = DictSet(r2.slots, n, u),
                        !.user_to_slot = DictSet(r2.user_to_slot, u, n)]

\* fault injection for C3: add_waitlist without its capacity check
add_waitlist_ok_nocap(r, u) ==
    /\ u \notin DOMAIN r.user_to_slot
    /\ ~InSeq(u, r.waitlist)

\* fault injection for C26: add_waitlist without its slot-holder check
add_waitlist_ok_seated(r, u) ==
    /\ ~InSeq(u, r.waitlist)
    /\ Len(r.waitlist) < WAITLIST_MAX

\* fault injection for C24: add_waitlist without its already-waiting check
add_waitlist_ok_again(r, u) ==
    /\ u \notin DOMAIN r.user_to_slot
    /\ Len(r.waitlist) < WAITLIST_MAX

\* Game.add_waitlist: whether it succeeds
add_waitlist_ok(r, u) ==
    /\ u \notin DOMAIN r.user_to_slot
    /\ ~InSeq(u, r.waitlist)
    /\ Len(r.waitlist) < WAITLIST_MAX

\* Game.add_waitlist: the roster afterwards
add_waitlist(r, u) ==
    IF add_waitlist_ok(r, u)
    THEN [r EXCEPT !.waitlist = Append(r.waitlist, u)]
    ELSE r

\* Game.autopromote_waiter: the roster afterwards
autopromote_waiter(r, freed) ==
    LET s == IF freed = None THEN first_free_slot(r) ELSE freed
    IN  IF s = None \/ r.waitlist = <<>> THEN r
        ELSE LET uid == Head(r.waitlist)
             IN  [r EXCEPT !.waitlist = Tail(r.waitlist),
                           !.slots = DictSet(r.slots, s, uid),
                           !.user_to_slot = DictSet(r.user_to_slot, uid, s)]

SetRoster(r) ==
    /\ slots' = r.slots
    /\ user_to_slot' = r.user_to_slot
    /\ waitlist' = r.waitlist

\* MatchCog._is_host_or_admin
is_host_or_admin(u) == u \in Admins \/ u = host_id


\* ----------------------------------------------------- utils/stats.py
\* DEFAULT_USER with the record's own keys; `present` tells a stored record
NoRec == [present |-> FALSE, pts |-> 0, played |-> 0, wins |-> 0, losses |-> 0,
          hist |-> <<>>]

LastN(s, n) == IF Len(s) <= n THEN s ELSE SubSeq(s, Len(s) - n + 1, Len(s))

HISTORY_MAX == 200

Max(a, b) == IF a >= b THEN a ELSE b

\* ensure_user: DEFAULT_USER.copy() is a shallow copy, so a record created here
\* holds the module's one default history list (dh), not a list of its own
ensure_user(L, dh, u) ==
    IF L[u].present THEN L[u] ELSE [NoRec EXCEPT !.present = TRUE, !.hist = dh]

\* update_result_dual: the stored ledger afterwards
update_result_dual(L, dh, u, won) ==
    LET rec == ensure_user(L, dh, u)
        h == Append(rec.hist, IF won THEN 1 ELSE 0)
    IN  [L EXCEPT ![u] = [rec EXCEPT !.played = @ + 1,
                                     !.wins = IF won THEN @ + 1 ELSE @,
                                     !.losses = IF won THEN @ ELSE @ + 1,
                                     !.hist = LastN(h, HISTORY_MAX)]]

\* update_result_dual: the default history list afterwards (appended to in place
\* when the record was created by this call)
update_result_default(L, dh, u, won) ==
    IF L[u].present THEN dh ELSE Append(dh, IF won THEN 1 ELSE 0)

\* add_points: the stored ledger afterwards
add_points(L, dh, u, amount) ==
    LET rec == ensure_user(L, dh, u)
    IN  [L EXCEPT ![u] = [rec EXCEPT !.pts = Max(0, rec.pts + amount)]]

\* get_points: the balance it returns (it does not save)
get_points(L, dh, u) == ensure_user(L, dh, u).pts

\* fault injection for C32: a spend_points without the balance test
spend_points_unchecked(L, dh, u, amount) ==
    LET rec == ensure_user(L, dh, u)
    IN  [L EXCEPT ![u] = [rec EXCEPT !.pts = rec.pts - amount]]

\* spend_points: its return value
spend_points_ok(L, dh, u, amount) ==
    amount <= 0 \/ ~(ensure_user(L, dh, u).pts < amount)

\* spend_points: the stored ledger afterwards (nothing is saved on False)
spend_points(L, dh, u, amount) ==
    LET rec == ensure_user(L, dh, u)
    IN  IF amount <= 0 THEN L
        ELSE IF rec.pts < amount THEN L
        ELSE [L EXCEPT ![u] = [rec EXCEPT !.pts = rec.pts - amount]]

\* load_stats, ensure_user, a write to a field the model does not follow,
\* save_stats: the record exists afterwards
touch_user(L, dh, u) == [L EXCEPT ![u] = ensure_user(L, dh, u)]

\* the loop body of ResultView.team1_win / team2_win for one member
PayOne(st, u, won) ==
    LET L1 == update_result_dual(st.L, st.dh, u, won)
        d1 == update_result_default(st.L, st.dh, u, won)
    IN  [L |-> add_points(L1, d1, u, IF won THEN WIN_REWARD ELSE LOSE_REWARD),
         dh |-> d1]

RECURSIVE PayAll(_, _, _)
\* for uid in uids: update_result_dual(uid, won); add_points(uid, reward)
\* (the list(set(...)) is walked in ascending id order)
PayAll(st, uids, won) ==
    IF uids = {} THEN st
    ELSE LET u == CHOOSE x \in uids : \A y \in uids : x <= y
         IN  PayAll(PayOne(st, u, won), uids \ {u}, won)

\* uids_team1 / uids_team2 of ResultView.team1_win and team2_win
uids_team(t) == {team_captains[t]} \cup SeqSet(teams[t])

\* both payout loops of a win declaration
Payout(winner) ==
    LET s1 == PayAll([L |-> ledger, dh |-> defaultHist], uids_team(1), winner = 1)
    IN  PayAll(s1, uids_team(2), winner = 2)

\* ------------------------------------------------------------- registry
\* dict operations of the registry: d[k] = v and d.pop(k, None)
EmptyDict == [k \in {} |-> None]
DictPut(d, k, v) == [x \in DOMAIN d \cup {k} |-> IF x = k THEN v ELSE d[x]]
DictPop(d, k) == [x \in DOMAIN d \ {k} |-> d[x]]

\* the session whose Game fields the model follows: the first start_lobby of the
\* cog (game_counter is 1), by HostUser, in channel SessionChannel
SessionId == 1
SessionChannel == 1
\* Game(game_id, host_id, channel_id): the fields the registry handlers read
NewGame(gid, host, ch) == [id |-> gid, host_id |-> host, channel_id |-> ch]
SessionGame == NewGame(SessionId, HostUser, SessionChannel)

\* MatchCog._get_active_game: the id of the game it returns, None for no game
get_active_game(ch) ==
    IF ch \notin DOMAIN channel_to_game THEN None
    ELSE IF channel_to_game[ch] \notin DOMAIN games THEN None
    ELSE channel_to_game[ch]

\* ------------------------------------------------------------- Init
\* the state after the first start_lobby of a cog: Game(game_id, host, channel)
\* registered for its channel, its LobbyView sent; c is the environment of the
\* run, r the roster, L the stats file the process finds on disk
InitStats(c, r, L) ==
    /\ cfg = c
    /\ host_id = HostUser
    /\ slots = r.slots
    /\ user_to_slot = r.user_to_slot
    /\ waitlist = r.waitlist
    /\ team_captains = <<>>
    /\ teams = [t \in 1 .. 2 |-> <<>>]
    /\ pick_order = <<>>
    /\ draft_turn = 0
    /\ pick_history = <<>>
    /\ finished = FALSE
    /\ flows = {}
    /\ nStarts = 0
    /\ available = <<>>
    /\ prompts = {}
    /\ pend = EmptyBag
    /\ kickViews = {}
    /\ replaceViews = {}
    /\ nPanels = 0
    /\ rvMade = 0
    /\ rvLive = 0
    /\ rvTimers = 0
    /\ ledger = L
    /\ defaultHist = <<>>
    /\ nLobby = 0
    /\ last = [op |-> "start_lobby", res |-> "ok", who |-> HostUser, arg |-> SessionChannel]
    /\ game_counter = SessionId + 1
    /\ games = DictPut(EmptyDict, SessionId, SessionGame)
    /\ channel_to_game = DictPut(EmptyDict, SessionChannel, SessionId)
    /\ active_hosts = {HostUser}
    /\ lobbyViews = {SessionGame}
    /\ endPend = EmptyBag
    /\ member_roles = [u \in 1 .. c.users |-> {}]
    /\ buyPend = EmptyBag
    /\ miniViews = EmptyBag
    /\ stock = POINT_SHOP_DEFAULT_STOCK
    /\ debits = [u \in 1 .. c.users |-> [i \in 1 .. NumTiers |-> 0]]
    /\ nOps = 0

\* the same with an empty stats file
InitGame(c, r) == InitStats(c, r, [u \in 1 .. c.users |-> NoRec])

InitWith(c) == InitGame(c, assign_slot(NewRoster, HostUser, 1))

\* Spec: the lobby start_lobby made, after member 2 has joined
Init ==
    InitGame([users |-> NumUsers, lobby |-> MaxLobbyOps, panels |-> MaxPanels,
              starts |-> MaxStarts, pending |-> MaxPending, rviews |-> MaxResultViews,
              selects |-> MaxSelects],
             assign_slot(assign_slot(NewRoster, HostUser, 1), 2, 2))

Did(op, res, who, arg) == last' = [op |-> op, res |-> res, who |-> who, arg |-> arg]

\* ----------------------------------------------------- LobbyView buttons
\* a lobby button press that changes the roster is counted against MaxLobbyOps
LobbyChange(r) ==
    /\ SetRoster(r)
    /\ IF r = Roster THEN UNCHANGED nLobby
       ELSE nLobby < cfg.lobby /\ nLobby' = nLobby + 1

\* LobbyView.join and MatchCog.join_command: the same steps on the Game
JoinSteps(op, u) ==
    IF u \in DOMAIN user_to_slot
    THEN Did(op, "AlreadyJoined", None, None) /\ UNCHANGED <<rosterVars, nLobby>>
    ELSE LET free == first_free_slot(Roster)
         IN  IF free # None
             THEN LobbyChange(assign_slot(Roster, u, free)) /\ Did(op, "ok", u, free)
             ELSE /\ LobbyChange(add_waitlist(Roster, u))
                  /\ IF add_waitlist_ok(Roster, u) THEN Did(op, "queued", u, None)
                     ELSE IF InSeq(u, waitlist) THEN Did(op, "AlreadyWaiting", None, None)
                     ELSE Did(op, "WaitlistFull", None, None)

\* LobbyView.join
join(u) ==
    /\ JoinSteps("join", u)
    /\ UNCHANGED <<host_id, draftVars, finished, viewVars, ledgerVars, cfg, regVars, shopVars>>

\* MatchCog.join_command
join_command(u) ==
    /\ JoinSteps("join_command", u)
    /\ UNCHANGED <<host_id, draftVars, finished, viewVars, ledgerVars, cfg, regVars, shopVars>>

\* LobbyView.wait
wait(u) ==
    /\ LobbyChange(add_waitlist(Roster, u))
    /\ IF add_waitlist_ok(Roster, u) THEN Did("wait", "ok", u, None)
       ELSE IF u \in DOMAIN user_to_slot THEN Did("wait", "AlreadyJoined", None, None)
       ELSE IF InSeq(u, waitlist) THEN Did("wait", "AlreadyWaiting", None, None)
       ELSE Did("wait", "WaitlistFull", None, None)
    /\ UNCHANGED <<host_id, draftVars, finished, viewVars, ledgerVars, cfg, regVars, shopVars>>

\* LobbyView.cancel (the leave button)
cancel(u) ==
    LET freed == freed_slot(Roster, u)
        r1 == remove_from_slot(Roster, u)
        r2 == remove_from_waitlist(r1, u)
        r3 == IF freed # None THEN autopromote_waiter(r2, freed) ELSE r2
    IN  /\ LobbyChange(r3)
        /\ IF r3 = Roster THEN Did("leave", "nothing", None, None)
           ELSE Did("leave", "ok", u, freed)
        /\ UNCHANGED <<host_id, draftVars, finished, viewVars, ledgerVars, cfg, regVars, shopVars>>

\* ------------------------------------------- captain selection (2 steps)
\* LobbyView.start -> start_team_leader_selection: a Captain1View whose options
\* are the slot occupants of that moment
start(actor) ==
    /\ nStarts < cfg.starts
    /\ IF ~is_host_or_admin(actor)
       THEN Did("start", "Forbidden", None, None) /\ UNCHANGED <<flows, nStarts>>
       ELSE IF Cardinality(participants(Roster)) < MIN_PARTICIPANTS
       THEN Did("start", "TooFew", None, None) /\ UNCHANGED <<flows, nStarts>>
       ELSE /\ flows' = flows \cup {[stage |-> 1, c1 |-> None, opts |-> participants(Roster)]}
            /\ nStarts' = nStarts + 1
            /\ Did("start", "ok", actor, None)
    /\ UNCHANGED <<gameVars, available, prompts, pend, kickViews, replaceViews, nPanels,
                   rvMade, rvLive, rvTimers, ledgerVars, nLobby, cfg, regVars, shopVars>>

\* Captain1View.select_c1: the message now carries a Captain2View over remain_opts
select_c1(actor, f, c) ==
    /\ f \in flows /\ f.stage = 1 /\ c \in f.opts
    /\ IF ~is_host_or_admin(actor)
       THEN Did("select_c1", "Forbidden", None, None) /\ UNCHANGED flows
       ELSE /\ flows' = (flows \ {f}) \cup {[stage |-> 2, c1 |-> c, opts |-> f.opts \ {c}]}
            /\ Did("select_c1", "ok", actor, c)
    /\ UNCHANGED <<gameVars, nStarts, available, prompts, pend, kickViews,
                   replaceViews, nPanels, rvMade, rvLive, rvTimers, ledgerVars, nLobby, cfg, regVars, shopVars>>

NoPrompt == [team |-> 0, cap |-> 0, d |-> 0, opts |-> {}]
\* a handler suspended at an await, with the DraftView message it came from
Suspended(kind, p) == [kind |-> kind, p |-> p]
Suspend(kind, p) == pend (+) SetToBag({Suspended(kind, p)})
Resume(e) == pend (-) SetToBag({e})
CanSuspend == BagCardinality(pend) < cfg.pending
\* a suspended DraftView handler whose message another handler has deleted
Gone(x, p) ==
    IF x.kind = "pick" /\ x.p = p THEN [x EXCEPT !.kind = "pick_gone"]
    ELSE IF x.kind = "undo" /\ x.p = p THEN [x EXCEPT !.kind = "undo_gone"]
    ELSE x
\* handler e resumes and deletes its message: the other handlers suspended on
\* that message will find it gone
DeleteMessage(e) ==
    LET B == pend (-) SetToBag({e})
    IN  [y \in {Gone(x, e.p) : x \in BagToSet(B)} |->
            BagCardinality([x \in {z \in BagToSet(B) : Gone(z, e.p) = y} |-> B[x]])]
\* the number of suspended handlers of one kind
NumSuspended(kind) ==
    BagCardinality([e \in {x \in BagToSet(pend) : x.kind = kind} |-> pend[e]])

\* Captain2View.select_c2 up to its await: team_captains = [c1, c2]; the view
\* stays on the message until the awaited edit_message(view=None) is done
select_c2(actor, f, c) ==
    /\ f \in flows /\ f.stage = 2 /\ c \in f.opts
    /\ IF ~is_host_or_admin(actor)
       THEN /\ Did("select_c2", "Forbidden", None, None)
            /\ UNCHANGED <<team_captains, flows, pend>>
       ELSE /\ CanSuspend /\ NumSuspended("start_draft") < cfg.selects
            /\ team_captains' = <<f.c1, c>>
            /\ pend' = Suspend("start_draft", f)
            /\ UNCHANGED flows
            /\ Did("select_c2", "ok", actor, c)
    /\ UNCHANGED <<host_id, rosterVars, teams, pick_order, draft_turn, pick_history,
                   finished, nStarts, available, prompts, kickViews, replaceViews, nPanels,
                   rvMade, rvLive, rvTimers, ledgerVars, nLobby, cfg, regVars, shopVars>>

\* ---------------------------------------------------------------- draft
SNAKE_1 == <<1, 2, 2, 1, 1, 2, 2, 1>>
SNAKE_2 == <<2, 1, 1, 2, 2, 1, 1, 2>>

\* fault injection for C9: the teams take turns one pick at a time
alternating_order(first) ==
    IF first = 1 THEN <<1, 2, 1, 2, 1, 2, 1, 2>> ELSE <<2, 1, 2, 1, 2, 1, 2, 1>>

\* start_draft: pick_order for the coin flip `first`
snake_order(first) == IF first = 1 THEN SNAKE_1 ELSE SNAKE_2

\* send_draft_ui: whether it calls finish_teams
draft_complete(av, turn, order) == av = {} \/ turn >= Len(order)

\* send_draft_ui: the DraftView it sends (team_num, captain_id, options, and the
\* `available` list it closes over)
draft_view(av, d, turn, order, caps) ==
    [team |-> order[turn + 1], cap |-> caps[order[turn + 1]], d |-> d, opts |-> av]

\* send_draft_ui(channel, game, available) with the list of draft d, reading the
\* Game as it will be after the caller's own step; `ps` are the live prompts
send_draft_ui(ps, avd, d) ==
    IF draft_complete(avd, draft_turn', pick_order')
    THEN \* finish_teams: a ResultView and its timeout task
         /\ rvMade < cfg.rviews
         /\ rvMade' = rvMade + 1
         /\ rvLive' = rvLive + 1
         /\ rvTimers' = rvTimers + 1
         /\ prompts' = ps
    ELSE /\ prompts' = ps \cup {draft_view(avd, d, draft_turn', pick_order', team_captains')}
         /\ UNCHANGED <<rvMade, rvLive, rvTimers>>

\* a start_draft that shuffles the captains as well as the first pick
start_draft_shuffles(e, first) ==
    LET players == {u \in participants(Roster) : ~InSeq(u, team_captains)}
        d == Len(available) + 1
    IN  /\ BagIn(e, pend) /\ e.kind = "start_draft"
        /\ pend' = Resume(e)
        /\ flows' = flows \ {e.p}
        /\ team_captains' = IF first = 2 THEN <<team_captains[2], team_captains[1]>>
                                         ELSE team_captains
        /\ teams' = [teams EXCEPT ![1] = Append(@, team_captains'[1]),
                                  ![2] = Append(@, team_captains'[2])]
        /\ pick_order' = snake_order(first)
        /\ available' = Append(available, players)
        /\ UNCHANGED draft_turn
        /\ send_draft_ui(prompts, players, d)
        /\ Did("start_draft", "ok", None, first)
        /\ UNCHANGED <<host_id, rosterVars, pick_history, finished, nStarts,
                       kickViews, replaceViews, nPanels, ledgerVars, nLobby, cfg, regVars, shopVars>>

\* the rest of select_c2: the edit takes the Captain2View off the message, then
\* start_draft and its send_draft_ui
start_draft(e, first) ==
    LET players == {u \in participants(Roster) : ~InSeq(u, team_captains)}
        d == Len(available) + 1
    IN  /\ BagIn(e, pend) /\ e.kind = "start_draft"
        /\ pend' = Resume(e)
        /\ flows' = flows \ {e.p}
        /\ teams' = [teams EXCEPT ![1] = Append(@, team_captains[1]),
                                  ![2] = Append(@, team_captains[2])]
        /\ pick_order' = snake_order(first)
        /\ available' = Append(available, players)
        /\ UNCHANGED <<team_captains, draft_turn>>
        /\ send_draft_ui(prompts, players, d)
        /\ Did("start_draft", "ok", None, first)
        /\ UNCHANGED <<host_id, rosterVars, pick_history, finished, nStarts,
                       kickViews, replaceViews, nPanels, ledgerVars, nLobby, cfg, regVars, shopVars>>

\* the part of the Game a DraftView handler works on: the teams, the `available`
\* list its prompt closes over (the list of draft d), pick_history, draft_turn
DraftOf(d) ==
    [teams |-> teams, av |-> available[d], hist |-> pick_history, turn |-> draft_turn]

SetDraft(D, d) ==
    /\ teams' = D.teams
    /\ available' = [available EXCEPT ![d] = D.av]
    /\ pick_history' = D.hist
    /\ draft_turn' = D.turn

\* select_callback: the mutations of an accepted pick of uid for team_num
pick_effect(D, team_num, uid) ==
    [teams |-> [D.teams EXCEPT ![team_num] = Append(@, uid)],
     av |-> D.av \ {uid},
     hist |-> Append(D.hist, <<team_num, uid>>),
     turn |-> D.turn + 1]

\* undo_pick: the mutations of an accepted undo
undo_effect(D) ==
    LET lastp == D.hist[Len(D.hist)]
        last_team == lastp[1]
        last_uid == lastp[2]
    IN  [hist |-> SubSeq(D.hist, 1, Len(D.hist) - 1),
         teams |-> [D.teams EXCEPT ![last_team] = SeqRemove(@, last_uid)],
         av |-> D.av \cup {last_uid},
         turn |-> IF D.turn > 0 THEN D.turn - 1 ELSE D.turn]

\* DraftView.select_callback up to its first await
select_callback(p, actor, uid) ==
    /\ p \in prompts /\ uid \in p.opts
    /\ IF actor # p.cap
       THEN /\ Did("pick", "NotYourTurn", None, None)
            /\ UNCHANGED <<teams, available, pick_history, draft_turn, pend>>
       ELSE IF uid \notin available[p.d]
       THEN /\ Did("pick", "AlreadyPicked", None, None)
            /\ UNCHANGED <<teams, available, pick_history, draft_turn, pend>>
       ELSE /\ CanSuspend
            /\ SetDraft(pick_effect(DraftOf(p.d), p.team, uid), p.d)
            /\ pend' = Suspend("pick", p)
            /\ Did("pick", "ok", actor, uid)
    /\ UNCHANGED <<host_id, rosterVars, team_captains, pick_order, finished, flows,
                   nStarts, prompts, kickViews, replaceViews, nPanels, rvMade, rvLive, rvTimers,
                   ledgerVars, nLobby, cfg, regVars, shopVars>>

\* the rest of select_callback: interaction.message.delete() raises NotFound when
\* another handler deleted the prompt first, and then nothing more runs
pick_resume(e) ==
    /\ BagIn(e, pend) /\ e.kind \in {"pick", "pick_gone"}
    /\ UNCHANGED <<draftVars, available>>
    /\ IF e.kind = "pick"
       THEN /\ pend' = DeleteMessage(e)
            /\ send_draft_ui(prompts \ {e.p}, available[e.p.d], e.p.d)
            /\ Did("pick_resume", "ok", None, None)
       ELSE /\ pend' = Resume(e)
            /\ UNCHANGED <<prompts, rvMade, rvLive, rvTimers>>
            /\ Did("pick_resume", "NotFound", None, None)
    /\ UNCHANGED <<host_id, rosterVars, finished, flows, nStarts, kickViews,
                   replaceViews, nPanels, ledgerVars, nLobby, cfg, regVars, shopVars>>

\* DraftView.undo_pick up to its first await
undo_pick(p, actor) ==
    /\ p \in prompts
    /\ IF ~is_host_or_admin(actor)
       THEN /\ Did("undo", "Forbidden", None, None)
            /\ UNCHANGED <<teams, available, pick_history, draft_turn, pend>>
       ELSE IF pick_history = <<>>
       THEN /\ Did("undo", "NothingToUndo", None, None)
            /\ UNCHANGED <<teams, available, pick_history, draft_turn, pend>>
       ELSE /\ CanSuspend
            /\ SetDraft(undo_effect(DraftOf(p.d)), p.d)
            /\ pend' = Suspend("undo", p)
            /\ Did("undo", "ok", actor, pick_history[Len(pick_history)][2])
    /\ UNCHANGED <<host_id, rosterVars, team_captains, pick_order, finished, flows,
                   nStarts, prompts, kickViews, replaceViews, nPanels, rvMade, rvLive, rvTimers,
                   ledgerVars, nLobby, cfg, regVars, shopVars>>

\* the rest of undo_pick: the delete is inside try/except, send_draft_ui always runs
undo_resume(e) ==
    /\ BagIn(e, pend) /\ e.kind \in {"undo", "undo_gone"}
    /\ pend' = IF e.kind = "undo" THEN DeleteMessage(e) ELSE Resume(e)
    /\ UNCHANGED <<draftVars, available>>
    /\ send_draft_ui(IF e.kind = "undo" THEN prompts \ {e.p} ELSE prompts,
                     available[e.p.d], e.p.d)
    /\ Did("undo_resume", "ok", None, None)
    /\ UNCHANGED <<host_id, rosterVars, finished, flows, nStarts, kickViews,
                   replaceViews, nPanels, ledgerVars, nLobby, cfg, regVars, shopVars>>

\* ------------------------------------------------------- admin panel
\* the captain-of-record of team t, as `team_captains[t-1] if len(...) >= t`
captain_of(t) == IF Len(team_captains) >= t THEN team_captains[t] ELSE None

assigned == SeqSet(teams[1]) \cup SeqSet(teams[2])

\* KickView.__init__: the options of the select
kick_options ==
    {u \in SeqSet(teams[1]) : u # captain_of(1)}
        \cup {u \in SeqSet(teams[2]) : u # captain_of(2)}
        \cup (participants(Roster) \ assigned)
        \cup SeqSet(waitlist)

\* AdminMenuView.kick_member: shows a KickView whose options are built from the
\* Game of that moment; the admin selects one of them (self._select.values)
kick_member(actor, uid) ==
    /\ nPanels < cfg.panels
    /\ is_host_or_admin(actor)
    /\ uid \in kick_options
    /\ kickViews' = kickViews \cup {uid}
    /\ nPanels' = nPanels + 1
    /\ Did("kick_member", "ok", actor, uid)
    /\ UNCHANGED <<gameVars, flows, nStarts, available, prompts, pend, replaceViews,
                   rvMade, rvLive, rvTimers, ledgerVars, nLobby, cfg, regVars, shopVars>>

\* KickView.do_kick on a view whose selected value is uid
do_kick(actor, uid) ==
    /\ uid \in kickViews
    /\ IF ~is_host_or_admin(actor)
       THEN /\ Did("kick", "Forbidden", None, None)
            /\ UNCHANGED <<rosterVars, teams, kickViews>>
       ELSE LET r1 == remove_from_waitlist(Roster, uid)
                freed == freed_slot(r1, uid)
                r2 == remove_from_slot(r1, uid)
                r3 == IF freed # None THEN autopromote_waiter(r2, freed) ELSE r2
            IN  /\ teams' = [t \in 1 .. 2 |-> SeqRemove(teams[t], uid)]
                /\ SetRoster(r3)
                /\ kickViews' = kickViews \ {uid}
                /\ Did("kick", "ok", actor, uid)
    /\ UNCHANGED <<host_id, team_captains, pick_order, draft_turn, pick_history,
                   finished, flows, nStarts, available, prompts, pend, replaceViews,
                   nPanels, rvMade, rvLive, rvTimers, ledgerVars, nLobby, cfg, regVars, shopVars>>

\* ReplacePickView.__init__: the options of the `in` select, as (source, uid)
replace_in_options(team_no) ==
    {[src |-> "T", uid |-> u] : u \in SeqSet(teams[3 - team_no])}
        \cup {[src |-> "W", uid |-> u] : u \in SeqSet(waitlist)}
        \cup {[src |-> "P", uid |-> u] : u \in participants(Roster) \ assigned}

\* AdminMenuView.replace_member, then ReplaceTeamPickView.pick_t1 / pick_t2: a
\* ReplacePickView built from the Game of that moment, in which the admin selects
\* out_uid among the team's members and tok among the incoming options
replace_member(actor, team_no, out_uid, tok) ==
    /\ nPanels < cfg.panels
    /\ is_host_or_admin(actor)
    /\ InSeq(out_uid, teams[team_no])
    /\ tok \in replace_in_options(team_no)
    /\ replaceViews' = replaceViews \cup
           {[team_no |-> team_no, out |-> out_uid, src |-> tok.src, inn |-> tok.uid]}
    /\ nPanels' = nPanels + 1
    /\ Did("replace_member", "ok", actor, team_no)
    /\ UNCHANGED <<gameVars, flows, nStarts, available, prompts, pend, kickViews,
                   rvMade, rvLive, rvTimers, ledgerVars, nLobby, cfg, regVars, shopVars>>

\* do_replace, src "T": the teams afterwards (tm: teams with out_uid already removed)
replace_swap(tm, team_no, out_uid, in_uid) ==
    LET other == 3 - team_no
        t1 == [tm EXCEPT ![other] = SeqRemove(@, in_uid)]
        t2 == [t1 EXCEPT ![team_no] = Append(@, in_uid)]
    IN  [t2 EXCEPT ![other] = Append(@, out_uid)]

\* do_replace, src "W": the roster afterwards
replace_from_waitlist(r, out_uid, in_uid) ==
    LET r1 == remove_from_waitlist(r, in_uid)
    IN  IF Len(r1.waitlist) < REPLACE_WAIT_MAX
        THEN [r1 EXCEPT !.waitlist = Append(@, out_uid)]
        ELSE LET freed == freed_slot(r1, out_uid)
                 r2 == remove_from_slot(r1, out_uid)
             IN  IF freed # None THEN autopromote_waiter(r2, freed) ELSE r2

\* ReplacePickView.do_replace on the view v (its two selected values)
do_replace(actor, v) ==
    /\ v \in replaceViews
    /\ LET tn == v.team_no
           out_uid == v.out
           in_uid == v.inn
           removed == [teams EXCEPT ![tn] = SeqRemove(@, out_uid)]
       IN  IF ~is_host_or_admin(actor)
           THEN /\ Did("replace", "Forbidden", None, None)
                /\ UNCHANGED <<rosterVars, teams, replaceViews>>
           ELSE IF ~InSeq(out_uid, teams[tn])
           THEN /\ Did("replace", "InvalidOutgoing", None, None)
                /\ UNCHANGED <<rosterVars, teams, replaceViews>>
           ELSE IF v.src = "T"
           THEN IF ~InSeq(in_uid, removed[3 - tn])
                THEN /\ teams' = removed
                     /\ Did("replace", "InvalidIncoming", None, None)
                     /\ UNCHANGED <<rosterVars, replaceViews>>
                ELSE /\ teams' = replace_swap(removed, tn, out_uid, in_uid)
                     /\ replaceViews' = replaceViews \ {v}
                     /\ Did("replace", "swap", actor, out_uid)
                     /\ UNCHANGED rosterVars
           ELSE IF v.src = "W"
           THEN IF ~InSeq(in_uid, waitlist)
                THEN /\ teams' = removed
                     /\ Did("replace", "InvalidIncoming", None, None)
                     /\ UNCHANGED <<rosterVars, replaceViews>>
                ELSE /\ teams' = [removed EXCEPT ![tn] = Append(@, in_uid)]
                     /\ SetRoster(replace_from_waitlist(Roster, out_uid, in_uid))
                     /\ replaceViews' = replaceViews \ {v}
                     /\ Did("replace", "waitlist", actor, out_uid)
           ELSE IF in_uid \notin participants(Roster)
                THEN /\ teams' = removed
                     /\ Did("replace", "InvalidIncoming", None, None)
                     /\ UNCHANGED <<rosterVars, replaceViews>>
                ELSE /\ teams' = [removed EXCEPT ![tn] = Append(@, in_uid)]
                     /\ replaceViews' = replaceViews \ {v}
                     /\ Did("replace", "unassigned", actor, out_uid)
                     /\ UNCHANGED rosterVars
    /\ UNCHANGED <<host_id, team_captains, pick_order, draft_turn, pick_history,
                   finished, flows, nStarts, available, prompts, pend, kickViews,
                   nPanels, rvMade, rvLive, rvTimers, ledgerVars, nLobby, cfg, regVars, shopVars>>

\* ------------------------------------------------------- ResultView
\* a result button can be pressed: on an enabled ResultView, or on the one whose
\* handler has locked it and is still suspended at edit_message
ResultPressable == rvLive > 0 \/ BagIn(Suspended("result", NoPrompt), pend)

\* fault injection for C4: _lock_buttons that disables the buttons only
lock_buttons_keeps_open ==
    /\ finished' = finished
    /\ rvLive' = IF rvLive > 0 THEN rvLive - 1 ELSE rvLive
    /\ pend' = Suspend("result", NoPrompt)

\* ResultView._lock_buttons, then the handler's await
lock_buttons ==
    /\ finished' = TRUE
    /\ rvLive' = IF rvLive > 0 THEN rvLive - 1 ELSE rvLive
    /\ pend' = Suspend("result", NoPrompt)

\* ResultView.team1_win (winner = 1) and team2_win (winner = 2)
declare_win(op, actor, winner) ==
    /\ ResultPressable
    /\ IF ~is_host_or_admin(actor)
       THEN /\ Did(op, "Forbidden", None, None)
            /\ UNCHANGED <<finished, rvLive, pend, ledgerVars>>
       ELSE IF finished
       THEN /\ Did(op, "AlreadyFinished", None, None)
            /\ UNCHANGED <<finished, rvLive, pend, ledgerVars>>
       ELSE /\ CanSuspend
            /\ ledger' = Payout(winner).L
            /\ defaultHist' = Payout(winner).dh
            /\ lock_buttons
            /\ Did(op, "ok", actor, winner)
    /\ UNCHANGED <<host_id, rosterVars, draftVars, flows, nStarts, available, prompts,
                   kickViews, replaceViews, nPanels, rvMade, rvTimers, nLobby, cfg, regVars, shopVars>>

team1_win(actor) == declare_win("team1_win", actor, 1)

team2_win(actor) == declare_win("team2_win", actor, 2)

\* fault injection for C6: a cancel that runs the payout of a team-1 win
cancel_game_pays(actor) == declare_win("cancel_game", actor, 1)

\* ResultView.cancel_game
cancel_game(actor) ==
    /\ ResultPressable
    /\ IF ~is_host_or_admin(actor)
       THEN /\ Did("cancel_game", "Forbidden", None, None)
            /\ UNCHANGED <<finished, rvLive, pend>>
       ELSE IF finished
       THEN /\ Did("cancel_game", "AlreadyFinished", None, None)
            /\ UNCHANGED <<finished, rvLive, pend>>
       ELSE /\ CanSuspend
            /\ lock_buttons
            /\ Did("cancel_game", "ok", actor, None)
    /\ UNCHANGED <<host_id, rosterVars, draftVars, flows, nStarts, available, prompts,
                   kickViews, replaceViews, nPanels, rvMade, rvTimers, ledgerVars, nLobby, cfg, regVars, shopVars>>

\* the rest of a result handler: interaction.response.edit_message returns
result_resume ==
    LET e == Suspended("result", NoPrompt)
    IN  /\ BagIn(e, pend)
        /\ pend' = Resume(e)
        /\ Did("result_resume", "ok", None, None)
        /\ UNCHANGED <<gameVars, flows, nStarts, available, prompts, kickViews,
                       replaceViews, nPanels, rvMade, rvLive, rvTimers, ledgerVars, nLobby, cfg, regVars, shopVars>>

\* fault injection for C30: a timeout that closes the session like cancel_game
disable_buttons_after_timeout_cancels ==
    /\ rvTimers > 0
    /\ rvTimers' = rvTimers - 1
    /\ rvLive' = IF finished \/ rvLive = 0 THEN rvLive ELSE rvLive - 1
    /\ finished' = TRUE
    /\ Did("result_timeout", IF finished THEN "finished" ELSE "locked", None, None)
    /\ UNCHANGED <<host_id, rosterVars, draftVars, flows, nStarts, available, prompts,
                   pend, kickViews, replaceViews, nPanels, rvMade, ledgerVars, nLobby,
                   cfg, regVars, shopVars>>

\* disable_buttons_after_timeout, when its sleep ends
disable_buttons_after_timeout ==
    /\ rvTimers > 0
    /\ rvTimers' = rvTimers - 1
    /\ rvLive' = IF finished \/ rvLive = 0 THEN rvLive ELSE rvLive - 1
    /\ Did("result_timeout", IF finished THEN "finished" ELSE "locked", None, None)
    /\ UNCHANGED <<gameVars, flows, nStarts, available, prompts, pend, kickViews,
                   replaceViews, nPanels, rvMade, ledgerVars, nLobby, cfg, regVars, shopVars>>

\* ------------------------------------------------------------- Next
\* Spec schedules the opening of an admin panel and a press on a result button
\* when no handler of the captain selection or of a draft prompt is suspended
\* (a panel that is open is run at any time)
DraftQuiet == \A e \in BagToSet(pend) : e.kind = "result"

Next ==
    \/ \E u \in Users : join(u)
    \/ \E u \in Users : join_command(u)
    \/ \E u \in Users : wait(u)
    \/ \E u \in Users : cancel(u)
    \/ \E a \in Users : start(a)
    \/ \E a \in Users, f \in flows, c \in Users : select_c1(a, f, c)
    \/ \E a \in Users, f \in flows, c \in Users : select_c2(a, f, c)
    \/ \E e \in BagToSet(pend), first \in 1 .. 2 : start_draft(e, first)
    \/ \E p \in prompts, a \in Users, uid \in Users : select_callback(p, a, uid)
    \/ \E e \in BagToSet(pend) : pick_resume(e)
    \/ \E p \in prompts, a \in Users : undo_pick(p, a)
    \/ \E e \in BagToSet(pend) : undo_resume(e)
    \/ DraftQuiet /\ \E a \in Users, uid \in Users : kick_member(a, uid)
    \/ \E a \in Users, uid \in Users : do_kick(a, uid)
    \/ DraftQuiet /\ \E a \in Users, t \in 1 .. 2, o \in Users :
           \E tok \in replace_in_options(t) : replace_member(a, t, o, tok)
    \/ \E a \in Users, v \in replaceViews : do_replace(a, v)
    \/ DraftQuiet /\ \E a \in Users : team1_win(a)
    \/ DraftQuiet /\ \E a \in Users : team2_win(a)
    \/ DraftQuiet /\ \E a \in Users : cancel_game(a)
    \/ result_resume
    \/ disable_buttons_after_timeout

Spec == Init /\ [][Next]_vars

\* ---------------------------------------------------------- SpecAdmin
\* the lobby, the draft and the admin panels, with more lobby presses
InitAdmin ==
    InitWith([users |-> NumUsers, lobby |-> AdminLobbyOps, panels |-> AdminPanels,
              starts |-> 1, pending |-> 1, rviews |-> 1, selects |-> 1])

NextAdmin ==
    \/ \E u \in Users : join(u)
    \/ \E u \in Users : join_command(u)
    \/ \E u \in Users : wait(u)
    \/ \E u \in Users : cancel(u)
    \/ \E a \in Users : start(a)
    \/ \E a \in Users, f \in flows, c \in Users : select_c1(a, f, c)
    \/ \E a \in Users, f \in flows, c \in Users : select_c2(a, f, c)
    \/ \E e \in BagToSet(pend), first \in 1 .. 2 : start_draft(e, first)
    \/ \E p \in prompts, a \in Users, uid \in Users : select_callback(p, a, uid)
    \/ \E e \in BagToSet(pend) : pick_resume(e)
    \/ \E a \in Users, uid \in Users : kick_member(a, uid)
    \/ \E a \in Users, uid \in Users : do_kick(a, uid)
    \/ \E a \in Users, t \in 1 .. 2, o \in Users :
           \E tok \in replace_in_options(t) : replace_member(a, t, o, tok)
    \/ \E a \in Users, v \in replaceViews : do_replace(a, v)

SpecAdmin == InitAdmin /\ [][NextAdmin]_vars

\* ------------------------------------------------------------ SpecCap
\* a full lobby: the members 2 .. CapJoined have pressed join in the order of
\* their ids (ten hold the slots, the others wait); then the other members
\* arrive in the order of their ids and anyone may leave; when the lobby has
\* settled the host starts the game with captains 1 and 2 and replaces or
\* kicks a member
RECURSIVE Arrivals(_, _, _)
\* the roster after the members u .. n pressed join, one after the other
Arrivals(r, u, n) ==
    IF u > n THEN r
    ELSE LET free == first_free_slot(r)
         IN  Arrivals(IF free # None THEN assign_slot(r, u, free)
                      ELSE IF add_waitlist_ok(r, u) THEN add_waitlist(r, u) ELSE r,
                      u + 1, n)

InitCap ==
    InitGame([users |-> CapUsers, lobby |-> CapLobbyOps, panels |-> 1,
              starts |-> 1, pending |-> 1, rviews |-> 1, selects |-> 1],
             Arrivals(assign_slot(NewRoster, HostUser, 1), 2, CapJoined))

Absent == {u \in Users : u \notin DOMAIN user_to_slot /\ ~InSeq(u, waitlist)}

Newcomer == {u \in Absent : \A v \in Absent : u <= v}

\* who presses leave: the host, the holder of the last slot, the last waiter
\* and a member who is not in the lobby
CapLeavers ==
    {HostUser} \cup ({slots[NUM_SLOTS]} \ {None}) \cup Newcomer
        \cup (IF waitlist = <<>> THEN {} ELSE {waitlist[Len(waitlist)]})

NextCap ==
    \/ \E u \in Newcomer : join(u)
    \/ \E u \in Newcomer : join_command(u)
    \/ \E u \in Newcomer \cup SeqSet(waitlist) : wait(u)
    \/ \E u \in CapLeavers : cancel(u)
    \/ nLobby = cfg.lobby /\ start(HostUser)
    \/ \E f \in flows, c \in 1 .. 2 : select_c1(HostUser, f, c)
    \/ \E f \in flows, c \in 1 .. 2 : select_c2(HostUser, f, c)
    \/ \E e \in BagToSet(pend), first \in 1 .. 2 : start_draft(e, first)
    \/ \E uid \in Users : kick_member(HostUser, uid)
    \/ \E uid \in Users : do_kick(HostUser, uid)
    \/ \E t \in 1 .. 2, o \in Users :
           \E tok \in replace_in_options(t) : replace_member(HostUser, t, o, tok)
    \/ \E v \in replaceViews : do_replace(HostUser, v)

SpecCap == InitCap /\ [][NextCap]_vars

\* ------------------------------------------------------- SpecScenario
\* one full game without administrative edits, each handler run to its end
\* before the next begins: ten members join in the order of their ids, the
\* host starts the game and selects two captains among the members 1 .. 3,
\* the captain on turn picks the lowest or the highest member of the pool, the
\* host may undo, and a result is declared
InitScenario ==
    InitWith([users |-> NUM_SLOTS, lobby |-> NUM_SLOTS - 1, panels |-> 0,
              starts |-> 1, pending |-> 1, rviews |-> 1, selects |-> 1])

PoolEnds(S) == {u \in S : (\A v \in S : u <= v) \/ (\A v \in S : u >= v)}

NextScenario ==
    \/ \E u \in Newcomer : join(u)
    \/ \E u \in Newcomer : join_command(u)
    \/ Cardinality(participants(Roster)) = NUM_SLOTS /\ start(HostUser)
    \/ \E f \in flows, c \in 1 .. 3 : select_c1(HostUser, f, c)
    \/ \E f \in flows, c \in 1 .. 3 : select_c2(HostUser, f, c)
    \/ \E e \in BagToSet(pend), first \in 1 .. 2 : start_draft(e, first)
    \/ \E p \in prompts, a \in 1 .. 3 :
           \E uid \in PoolEnds(p.opts) : select_callback(p, a, uid)
    \/ \E e \in BagToSet(pend) : pick_resume(e)
    \/ \E p \in prompts, a \in {HostUser, 3} : undo_pick(p, a)
    \/ \E e \in BagToSet(pend) : undo_resume(e)
    \/ \E a \in {HostUser, 3} : team1_win(a)
    \/ \E a \in {HostUser, 3} : team2_win(a)
    \/ \E a \in {HostUser, 3} : cancel_game(a)
    \/ result_resume
    \/ disable_buttons_after_timeout

SpecScenario == InitScenario /\ [][NextScenario]_vars

\* ---------------------------------------------------------- SpecDraft
\* the draft under overlapping handlers: the members join in the order of their
\* ids, the host starts the game once and selects each captain once, and anyone
\* presses the draft prompts, also while an earlier pick or undo handler is
\* suspended at an await
InitDraft ==
    InitWith([users |-> DraftUsers, lobby |-> DraftUsers, panels |-> 0,
              starts |-> 1, pending |-> DraftPending, rviews |-> 1, selects |-> 1])

NextDraft ==
    \/ \E u \in Newcomer : join(u)
    \/ start(HostUser)
    \/ \E f \in flows, c \in Users : select_c1(HostUser, f, c)
    \/ \E f \in flows, c \in Users : select_c2(HostUser, f, c)
    \/ \E e \in BagToSet(pend), first \in 1 .. 2 : start_draft(e, first)
    \/ \E p \in prompts, a \in Users, uid \in Users : select_callback(p, a, uid)
    \/ \E e \in BagToSet(pend) : pick_resume(e)
    \/ \E p \in prompts, a \in Users : undo_pick(p, a)
    \/ \E e \in BagToSet(pend) : undo_resume(e)

SpecDraft == InitDraft /\ [][NextDraft]_vars

\* ------------------------------------------------------- SpecReselect
\* the Captain2View used again while the handler of an earlier selection is
\* suspended at its edit_message: the members join in the order of their ids,
\* the host starts the game once, and every selection is the host's
InitReselect ==
    InitWith([users |-> NumUsers, lobby |-> NumUsers, panels |-> 0,
              starts |-> 1, pending |-> ReselectPending, rviews |-> 1,
              selects |-> ReselectPending])

NextReselect ==
    \/ \E u \in Newcomer : join(u)
    \/ start(HostUser)
    \/ \E f \in flows, c \in Users : select_c1(HostUser, f, c)
    \/ \E f \in flows, c \in Users : select_c2(HostUser, f, c)
    \/ \E e \in BagToSet(pend), first \in 1 .. 2 : start_draft(e, first)
    \/ \E p \in prompts, a \in Users, uid \in Users : select_callback(p, a, uid)
    \/ \E e \in BagToSet(pend) : pick_resume(e)
    \/ \E p \in prompts, a \in Users : undo_pick(p, a)
    \/ \E e \in BagToSet(pend) : undo_resume(e)

SpecReselect == InitReselect /\ [][NextReselect]_vars

\* -------------------------------------------------------- SpecRestart
\* the start button of the lobby pressed more than once, each handler run to
\* its end before the next begins: the members join in the order of their
\* ids, the host starts the game, selects the captains, and the draft prompts
\* of every draft start stay usable
InitRestart ==
    InitWith([users |-> NumUsers, lobby |-> NumUsers, panels |-> 0,
              starts |-> RestartStarts, pending |-> 1, rviews |-> RestartStarts, selects |-> 1])

NextRestart ==
    \/ \E u \in Newcomer : join(u)
    \/ start(HostUser)
    \/ \E f \in flows, c \in Users : select_c1(HostUser, f, c)
    \/ \E f \in flows, c \in Users : select_c2(HostUser, f, c)
    \/ \E e \in BagToSet(pend), first \in 1 .. 2 : start_draft(e, first)
    \/ \E p \in prompts, a \in Users, uid \in Users : select_callback(p, a, uid)
    \/ \E e \in BagToSet(pend) : pick_resume(e)
    \/ \E p \in prompts, a \in Users : undo_pick(p, a)
    \/ \E e \in BagToSet(pend) : undo_resume(e)

SpecRestart == InitRestart /\ [][NextRestart]_vars

\* ---------------------------------------------------------- SpecTurns
\* the start button pressed repeatedly in a guild of five, each handler run to
\* its end before the next begins: the members join in the order of their ids,
\* the host starts the game when all are in and selects members 1 and 2 as
\* captains every time, and the captain named on a prompt picks the lowest
\* member it offers
Lowest(S) == {u \in S : \A v \in S : u <= v}

InitTurns ==
    InitWith([users |-> TurnUsers, lobby |-> TurnUsers - 1, panels |-> 0,
              starts |-> TurnStarts, pending |-> 1, rviews |-> TurnStarts,
              selects |-> 1])

NextTurns ==
    \/ \E u \in Newcomer : join(u)
    \/ Cardinality(participants(Roster)) = TurnUsers /\ start(HostUser)
    \/ \E f \in flows : select_c1(HostUser, f, 1)
    \/ \E f \in flows : select_c2(HostUser, f, 2)
    \/ \E e \in BagToSet(pend), first \in 1 .. 2 : start_draft(e, first)
    \/ \E p \in prompts : \E uid \in Lowest(p.opts) : select_callback(p, p.cap, uid)
    \/ \E e \in BagToSet(pend) : pick_resume(e)

SpecTurns == InitTurns /\ [][NextTurns]_vars

\* ---------------------------------------------------------- SpecEdits
\* two administrative edits in one game: the members 2 .. EditJoined have
\* joined in the order of their ids, the other member may wait, the host starts
\* the game and selects the captains among the members 1 and 2, the captain on
\* turn picks, and the host opens and runs up to EditPanels kick or replace
\* panels
InitEdits ==
    InitGame([users |-> EditUsers, lobby |-> EditLobbyOps, panels |-> EditPanels,
              starts |-> 1, pending |-> 1, rviews |-> 1, selects |-> 1],
             Arrivals(assign_slot(NewRoster, HostUser, 1), 2, EditJoined))

NextEdits ==
    \/ \E u \in Newcomer : wait(u)
    \/ start(HostUser)
    \/ \E f \in flows, c \in 1 .. 2 : select_c1(HostUser, f, c)
    \/ \E f \in flows, c \in 1 .. 2 : select_c2(HostUser, f, c)
    \/ \E e \in BagToSet(pend), first \in 1 .. 2 : start_draft(e, first)
    \/ \E p \in prompts, uid \in Users : select_callback(p, p.cap, uid)
    \/ \E e \in BagToSet(pend) : pick_resume(e)
    \/ \E uid \in Users : kick_member(HostUser, uid)
    \/ \E uid \in Users : do_kick(HostUser, uid)
    \/ \E t \in 1 .. 2, o \in Users :
           \E tok \in replace_in_options(t) : replace_member(HostUser, t, o, tok)
    \/ \E v \in replaceViews : do_replace(HostUser, v)

SpecEdits == InitEdits /\ [][NextEdits]_vars

\* ----------------------------------------------------------- SpecGame
\* the roster methods of a fresh Game, called in any order with any arguments
SlotArgs == (0 .. GameSlotArg) \cup {NUM_SLOTS, NUM_SLOTS + 1}

InitGameMethods ==
    InitGame([users |-> GameUsers, lobby |-> 0, panels |-> 0, starts |-> 0,
              pending |-> 0, rviews |-> 0, selects |-> 0],
             NewRoster)

\* a call of a Game method that leaves the roster r
Called(r) ==
    /\ SetRoster(r)
    /\ UNCHANGED <<host_id, draftVars, finished, viewVars, ledgerVars, nLobby, cfg, regVars, shopVars>>

\* game.assign_slot(u, n)
call_assign_slot(u, n) ==
    /\ Called(assign_slot(Roster, u, n))
    /\ IF n \notin DOMAIN slots THEN Did("assign_slot", "InvalidSlot", u, n)
       ELSE IF ~assign_slot_ok(Roster, u, n) THEN Did("assign_slot", "SlotOccupied", u, n)
       ELSE Did("assign_slot", "ok", u, n)

\* game.remove_from_slot(u)
call_remove_from_slot(u) ==
    /\ Called(remove_from_slot(Roster, u))
    /\ Did("remove_from_slot", "ok", u, freed_slot(Roster, u))

\* game.add_waitlist(u)
call_add_waitlist(u) ==
    /\ Called(add_waitlist(Roster, u))
    /\ IF u \in DOMAIN user_to_slot THEN Did("add_waitlist", "AlreadyJoined", u, None)
       ELSE IF InSeq(u, waitlist) THEN Did("add_waitlist", "AlreadyWaiting", u, None)
       ELSE IF Len(waitlist) >= WAITLIST_MAX THEN Did("add_waitlist", "WaitlistFull", u, None)
       ELSE Did("add_waitlist", "ok", u, None)

NextGameMethods ==
    \/ \E u \in Users, n \in SlotArgs : call_assign_slot(u, n)
    \/ \E u \in Users : call_remove_from_slot(u)
    \/ \E u \in Users : call_add_waitlist(u)

SpecGame == InitGameMethods /\ [][NextGameMethods]_vars

\* ---------------------------------------------------------- SpecRejoin
\* leaving and joining again after an administrative edit: members 1 and 2 hold
\* slots and member 3 waits; the host starts the game, selects the captains
\* among the members 1 and 2 and runs one replace panel; anyone may leave or
\* join, by button or by command
InitRejoin ==
    InitGame([users |-> RejoinUsers, lobby |-> RejoinLobbyOps, panels |-> 1,
              starts |-> 1, pending |-> 1, rviews |-> 1, selects |-> 1],
             add_waitlist(Arrivals(assign_slot(NewRoster, HostUser, 1), 2, 2), 3))

NextRejoin ==
    \/ \E u \in Users : join(u)
    \/ \E u \in Users : join_command(u)
    \/ \E u \in Users : cancel(u)
    \/ start(HostUser)
    \/ \E f \in flows, c \in 1 .. 2 : select_c1(HostUser, f, c)
    \/ \E f \in flows, c \in 1 .. 2 : select_c2(HostUser, f, c)
    \/ \E e \in BagToSet(pend), first \in 1 .. 2 : start_draft(e, first)
    \/ \E t \in 1 .. 2, o \in Users :
           \E tok \in replace_in_options(t) : replace_member(HostUser, t, o, tok)
    \/ \E v \in replaceViews : do_replace(HostUser, v)

SpecRejoin == InitRejoin /\ [][NextRejoin]_vars

\* ------------------------------------------------------- SpecRegistry
\* The registry of the cog under start_lobby commands in RegChannels channels and
\* presses of the end button of every LobbyView, while the first session is taken
\* from its lobby to a declared result.
Channels == 1 .. RegChannels

\* MatchCog.start_lobby up to its first await
start_lobby(ch, author) ==
    /\ IF get_active_game(ch) # None
       THEN /\ Did("start_lobby", "AlreadyActive", author, ch)
            /\ UNCHANGED regVars
       ELSE /\ game_counter <= RegMaxGames
            /\ game_counter' = game_counter + 1
            /\ games' = DictPut(games, game_counter, NewGame(game_counter, author, ch))
            /\ channel_to_game' = DictPut(channel_to_game, ch, game_counter)
            /\ active_hosts' = active_hosts \cup {author}
            /\ lobbyViews' = lobbyViews \cup {NewGame(game_counter, author, ch)}
            /\ Did("start_lobby", "ok", author, ch)
            /\ UNCHANGED endPend
    /\ UNCHANGED <<cfg, gameVars, viewVars, ledgerVars, nLobby, shopVars>>

\* MatchCog._is_host_or_admin for the game g of a LobbyView
is_host_or_admin_of(u, g) == u \in Admins \/ u = g.host_id

\* LobbyView.end of the view of game g, up to its await; the message shows the
\* buttons enabled until an edit_message of an end handler has returned
end(g, actor) ==
    /\ g \in lobbyViews
    /\ IF ~is_host_or_admin_of(actor, g)
       THEN /\ Did("end", "Forbidden", actor, g.id)
            /\ UNCHANGED regVars
       ELSE /\ BagCardinality(endPend) < RegPending
            /\ active_hosts' = active_hosts \ {g.host_id}
            /\ channel_to_game' = DictPop(channel_to_game, g.channel_id)
            /\ games' = DictPop(games, g.id)
            /\ endPend' = endPend (+) SetToBag({g})
            /\ Did("end", "ok", actor, g.id)
            /\ UNCHANGED <<game_counter, lobbyViews>>
    /\ UNCHANGED <<cfg, gameVars, viewVars, ledgerVars, nLobby, shopVars>>

\* the rest of LobbyView.end: interaction.response.edit_message returns and the
\* message shows the buttons disabled
end_resume(g) ==
    /\ BagIn(g, endPend)
    /\ endPend' = endPend (-) SetToBag({g})
    /\ lobbyViews' = lobbyViews \ {g}
    /\ Did("end_resume", "ok", None, g.id)
    /\ UNCHANGED <<game_counter, games, channel_to_game, active_hosts>>
    /\ UNCHANGED <<cfg, gameVars, viewVars, ledgerVars, nLobby, shopVars>>

InitRegistry ==
    InitGame([users |-> RegUsers, lobby |-> 0, panels |-> 0, starts |-> 1,
              pending |-> 1, rviews |-> 1, selects |-> 1],
             Arrivals(assign_slot(NewRoster, HostUser, 1), 2, 2))

NextRegistry ==
    \/ \E ch \in Channels, a \in Users : start_lobby(ch, a)
    \/ \E g \in lobbyViews, a \in Users : end(g, a)
    \/ \E g \in BagToSet(endPend) : end_resume(g)
    \/ SessionGame \in lobbyViews /\ start(HostUser)
    \/ \E f \in flows, c \in 1 .. 2 : select_c1(HostUser, f, c)
    \/ \E f \in flows, c \in 1 .. 2 : select_c2(HostUser, f, c)
    \/ \E e \in BagToSet(pend), first \in 1 .. 2 : start_draft(e, first)
    \/ team1_win(HostUser)
    \/ cancel_game(HostUser)
    \/ result_resume

SpecRegistry == InitRegistry /\ [][NextRegistry]_vars


\* ------------------------------------------------------- SpecLedger
\* The stats file under the commands and views of economy.py, minigames.py,
\* role_shop.py and shop.py, next to one match taken to its payout. Every
\* helper of utils/stats.py loads, changes and saves the file without an await,
\* so a handler is suspended only between two calls of the helpers. The clock
\* is free: a cooldown or the daily attendance may or may not have run out.
LedgerAmounts == {COIN_MIN_BALANCE_REQUIRED, POINT_SHOP_PRICE}
\* what a member types as the amount of a command
TypedAmounts == {0} \cup LedgerAmounts
Members == SUBSET Users \ {{}}

\* role_tiers of RoleShopCog: the price of tier i
TierPrice(i) == i * TierUnit

\* _current_tier: the highest tier held, 0 for none
current_tier(held) == IF held = {} THEN 0 ELSE CHOOSE i \in held : \A j \in held : j <= i

\* the frame of a handler of these cogs: it counts as one command or press
LedgerStep(L) ==
    /\ nOps < LedgerOps
    /\ nOps' = nOps + 1
    /\ ledger' = L
    /\ UNCHANGED <<cfg, gameVars, viewVars, defaultHist, nLobby, regVars>>

\* the handlers of these cogs suspended at an await
LedgerSuspended ==
    BagCardinality(buyPend)
        + BagCardinality([v \in {x \in BagToSet(miniViews) : x.resolving} |-> miniViews[v]])

RECURSIVE GrantAll(_, _, _, _)
\* grant_points: the loop over unique_members on one loaded stats dict
GrantAll(L, dh, ms, n) ==
    IF ms = {} THEN L
    ELSE LET m == CHOOSE x \in ms : \A y \in ms : x <= y
             rec == ensure_user(L, dh, m)
         IN  GrantAll([L EXCEPT ![m] = [rec EXCEPT !.pts = rec.pts + n]], dh, ms \ {m}, n)

RECURSIVE RevokeAll(_, _, _, _)
\* revoke_points: spend_points for every member in turn
RevokeAll(L, dh, ms, n) ==
    IF ms = {} THEN L
    ELSE LET m == CHOOSE x \in ms : \A y \in ms : x <= y
         IN  RevokeAll(spend_points(L, dh, m, n), dh, ms \ {m}, n)

\* EconomyCog.grant_points
grant_points(actor, ms, n) ==
    /\ IF actor \notin Admins
       THEN LedgerStep(ledger) /\ Did("grant", "Forbidden", actor, n)
       ELSE IF n <= 0
       THEN LedgerStep(ledger) /\ Did("grant", "InvalidAmount", actor, n)
       ELSE LedgerStep(GrantAll(ledger, defaultHist, ms, n)) /\ Did("grant", "ok", actor, n)
    /\ UNCHANGED <<member_roles, buyPend, miniViews, stock, debits>>

\* EconomyCog.revoke_points
revoke_points(actor, ms, n) ==
    /\ IF actor \notin Admins
       THEN LedgerStep(ledger) /\ Did("revoke", "Forbidden", actor, n)
       ELSE IF n <= 0
       THEN LedgerStep(ledger) /\ Did("revoke", "InvalidAmount", actor, n)
       ELSE IF \E m \in ms : get_points(ledger, defaultHist, m) < n
       THEN LedgerStep(ledger) /\ Did("revoke", "Insufficient", actor, n)
       ELSE LedgerStep(RevokeAll(ledger, defaultHist, ms, n)) /\ Did("revoke", "ok", actor, n)
    /\ UNCHANGED <<member_roles, buyPend, miniViews, stock, debits>>

\* EconomyCog.transfer_points
transfer_points(author, member, n) ==
    /\ IF member = author
       THEN LedgerStep(ledger) /\ Did("transfer", "Self", author, n)
       ELSE IF n <= 0
       THEN LedgerStep(ledger) /\ Did("transfer", "InvalidAmount", author, n)
       ELSE IF ~spend_points_ok(ledger, defaultHist, author, n)
       THEN LedgerStep(ledger) /\ Did("transfer", "Insufficient", author, n)
       ELSE /\ LedgerStep(add_points(spend_points(ledger, defaultHist, author, n),
                                     defaultHist, member, n))
            /\ Did("transfer", "ok", author, n)
    /\ UNCHANGED <<member_roles, buyPend, miniViews, stock, debits>>

\* EconomyCog.gamble
gamble(author, n, cooling, win) ==
    /\ IF n <= 0
       THEN LedgerStep(ledger) /\ Did("gamble", "InvalidAmount", author, n)
       ELSE IF cooling
       THEN LedgerStep(ledger) /\ Did("gamble", "Cooldown", author, n)
       ELSE IF ~spend_points_ok(ledger, defaultHist, author, n)
       THEN LedgerStep(ledger) /\ Did("gamble", "Insufficient", author, n)
       ELSE LET spent == spend_points(ledger, defaultHist, author, n)
            IN  IF win
                THEN /\ LedgerStep(add_points(spent, defaultHist, author, n * 2))
                     /\ Did("gamble", "win", author, n)
                ELSE /\ LedgerStep(spent)
                     /\ Did("gamble", "lose", author, n)
    /\ UNCHANGED <<member_roles, buyPend, miniViews, stock, debits>>

\* EconomyCog.attendance: the daily reward
attendance(author, done_today) ==
    /\ IF done_today /\ ledger[author].present
       THEN LedgerStep(ledger) /\ Did("attend", "AlreadyDone", author, None)
       ELSE LET rec == ensure_user(ledger, defaultHist, author)
            IN  /\ LedgerStep([ledger EXCEPT ![author] =
                                  [rec EXCEPT !.pts = rec.pts + DAILY_REWARD]])
                /\ Did("attend", "ok", author, DAILY_REWARD)
    /\ UNCHANGED <<member_roles, buyPend, miniViews, stock, debits>>

\* config.ini point_reset_allow
POINT_RESET_ALLOWED_IDS == Admins

\* EconomyCog.reset_all_points
reset_all_points(author) ==
    /\ IF author \notin POINT_RESET_ALLOWED_IDS
       THEN LedgerStep(ledger) /\ Did("reset", "Forbidden", author, None)
       ELSE /\ LedgerStep([u \in DOMAIN ledger |->
                              IF ledger[u].present THEN [ledger[u] EXCEPT !.pts = 0]
                              ELSE ledger[u]])
            /\ Did("reset", "ok", author, None)
    /\ UNCHANGED <<member_roles, buyPend, miniViews, stock, debits>>

\* a CoinView or DiceView sent to author
MiniView(author, game) == [author |-> author, game |-> game, resolving |-> FALSE]

MiniGames == {"coin", "dice1", "dice2", "dice3"}

mini_need(game) ==
    IF game = "coin" THEN COIN_MIN_BALANCE_REQUIRED
    ELSE IF game = "dice1" THEN DICE1_MIN_BALANCE_REQUIRED
    ELSE IF game = "dice2" THEN DICE2_MIN_BALANCE_REQUIRED
    ELSE DICE3_MIN_BALANCE_REQUIRED

mini_cost(game) ==
    IF game = "coin" THEN COIN_ENTRY_COST
    ELSE IF game = "dice1" THEN DICE1_ENTRY_COST
    ELSE IF game = "dice2" THEN DICE2_ENTRY_COST
    ELSE DICE3_ENTRY_COST

\* the number of guesses of a game
mini_rolls(game) ==
    IF game = "dice2" THEN 2 ELSE IF game = "dice3" THEN 3 ELSE 1

\* MenuView.coin_btn and MinigamesCog._start_dice; the cooldown test saves the
\* record of a member the file does not hold yet (_get_cd_map)
start_minigame(author, game, cooling) ==
    LET L1 == touch_user(ledger, defaultHist, author)
    IN  /\ IF cooling /\ ledger[author].present
           THEN /\ LedgerStep(L1) /\ Did(game, "Cooldown", author, None)
                /\ UNCHANGED miniViews
           ELSE IF get_points(L1, defaultHist, author) < mini_need(game)
           THEN /\ LedgerStep(L1) /\ Did(game, "Insufficient", author, None)
                /\ UNCHANGED miniViews
           ELSE IF ~spend_points_ok(L1, defaultHist, author, mini_cost(game))
           THEN /\ LedgerStep(L1) /\ Did(game, "Insufficient", author, None)
                /\ UNCHANGED miniViews
           ELSE /\ LedgerStep(spend_points(L1, defaultHist, author, mini_cost(game)))
                /\ miniViews' = miniViews (+) SetToBag({MiniView(author, game)})
                /\ Did(game, "ok", author, mini_cost(game))
        /\ UNCHANGED <<member_roles, buyPend, stock, debits>>

\* CoinView._resolve and DiceView._resolve: the ledger after the settlement
\* with hits correct guesses
settle(L, dh, u, game, hits) ==
    IF game = "coin"
    THEN IF hits = 1 THEN add_points(L, dh, u, COIN_REWARD_ON_HIT)
         ELSE spend_points(L, dh, u, COIN_EXTRA_LOSS_ON_MISS)
    ELSE IF game = "dice1"
    THEN IF hits = 1 THEN add_points(L, dh, u, DICE1_REWARD_1HIT) ELSE L
    ELSE IF game = "dice2"
    THEN IF hits = 0
         THEN IF DICE2_FAIL_TOTAL_LOSS - DICE2_ENTRY_COST > 0
              THEN spend_points(L, dh, u, DICE2_FAIL_TOTAL_LOSS - DICE2_ENTRY_COST)
              ELSE L
         ELSE IF hits = 1 THEN add_points(L, dh, u, DICE2_REWARD_ANY)
         ELSE add_points(L, dh, u, DICE2_REWARD_BOTH)
    ELSE IF hits = 0
         THEN IF DICE3_FAIL_TOTAL_LOSS - DICE3_ENTRY_COST > 0
              THEN spend_points(L, dh, u, DICE3_FAIL_TOTAL_LOSS - DICE3_ENTRY_COST)
              ELSE L
         ELSE IF hits = 1
         THEN IF DICE3_REWARD_1 > 0 THEN add_points(L, dh, u, DICE3_REWARD_1) ELSE L
         ELSE IF hits = 2 THEN add_points(L, dh, u, DICE3_REWARD_2)
         ELSE add_points(L, dh, u, DICE3_REWARD_3)

\* CoinView.heads / tails and the press of a DiceFaceButton that completes the
\* guesses, up to edit_message; the message shows its buttons until that edit
\* has returned, and BaseView.interaction_check admits the author only
resolve_minigame(v, presser, hits) ==
    /\ BagIn(v, miniViews)
    /\ hits \in 0 .. mini_rolls(v.game)
    /\ IF presser # v.author
       THEN /\ LedgerStep(ledger) /\ Did("resolve", "NotAuthor", presser, None)
            /\ UNCHANGED miniViews
       ELSE /\ v.resolving \/ LedgerSuspended < LedgerPending
            /\ LedgerStep(settle(ledger, defaultHist, presser, v.game, hits))
            /\ miniViews' = (miniViews (-) SetToBag({v}))
                                (+) SetToBag({[v EXCEPT !.resolving = TRUE]})
            /\ Did("resolve", v.game, presser, hits)
    /\ UNCHANGED <<member_roles, buyPend, stock, debits>>

\* the rest of _resolve: edit_message returns, the buttons are disabled
resolve_resume(v) ==
    /\ BagIn(v, miniViews) /\ v.resolving
    /\ miniViews' = miniViews (-) SetToBag({v})
    /\ Did("resolve_resume", "ok", None, None)
    /\ UNCHANGED <<cfg, gameVars, viewVars, ledgerVars, nLobby, regVars,
                   member_roles, buyPend, stock, debits, nOps>>

\* RoleShopCog.buy up to add_roles, in a guild where the bot may grant the
\* roles of the tiers; member.roles is the cache the gateway keeps
buy(member, index) ==
    LET current == current_tier(member_roles[member])
        price == TierPrice(index)
        refuse(res) == /\ LedgerStep(ledger) /\ Did("buy", res, member, index)
                       /\ UNCHANGED <<buyPend, debits>>
    IN  /\ IF index < 1 \/ index > NumTiers THEN refuse("InvalidIndex")
           ELSE IF current >= NumTiers THEN refuse("TopTier")
           ELSE IF index # current + 1 THEN refuse("NotNext")
           ELSE IF index \in member_roles[member] THEN refuse("Owned")
           ELSE IF ~spend_points_ok(ledger, defaultHist, member, price)
           THEN refuse("Insufficient")
           ELSE /\ LedgerSuspended < LedgerPending
                /\ LedgerStep(spend_points(ledger, defaultHist, member, price))
                /\ buyPend' = buyPend (+) SetToBag({[member |-> member, index |-> index]})
                /\ debits' = [debits EXCEPT ![member][index] = @ + 1]
                /\ Did("buy", "debited", member, index)
        /\ UNCHANGED <<member_roles, miniViews, stock>>

\* the rest of buy: add_roles returns (the cache then holds the role) or raises
\* (the price is refunded)
buy_resume(e, granted) ==
    /\ BagIn(e, buyPend)
    /\ buyPend' = buyPend (-) SetToBag({e})
    /\ IF granted
       THEN /\ member_roles' = [member_roles EXCEPT ![e.member] = @ \cup {e.index}]
            /\ Did("buy_resume", "granted", e.member, e.index)
            /\ UNCHANGED <<ledger, debits>>
       ELSE /\ ledger' = add_points(ledger, defaultHist, e.member, TierPrice(e.index))
            /\ debits' = [debits EXCEPT ![e.member][e.index] = @ - 1]
            /\ Did("buy_resume", "refunded", e.member, e.index)
            /\ UNCHANGED member_roles
    /\ UNCHANGED <<cfg, gameVars, viewVars, defaultHist, nLobby, regVars,
                   miniViews, stock, nOps>>

\* ShopCog.point_shop_stock
point_shop_stock(actor, item, qty) ==
    /\ IF actor \notin Admins
       THEN LedgerStep(ledger) /\ Did("restock", "Forbidden", actor, item) /\ UNCHANGED stock
       ELSE IF qty <= 0
       THEN LedgerStep(ledger) /\ Did("restock", "InvalidQty", actor, item) /\ UNCHANGED stock
       ELSE /\ LedgerStep(ledger)
            /\ stock' = [stock EXCEPT ![item] = @ + qty]
            /\ Did("restock", "ok", actor, item)
    /\ UNCHANGED <<member_roles, buyPend, miniViews, debits>>

\* ShopCog.point_shop_buy
point_shop_buy(author, index) ==
    /\ IF index \notin POINT_SHOP_ITEMS
       THEN LedgerStep(ledger) /\ Did("shop_buy", "InvalidIndex", author, index)
            /\ UNCHANGED stock
       ELSE IF stock[index] <= 0
       THEN LedgerStep(ledger) /\ Did("shop_buy", "NoStock", author, index)
            /\ UNCHANGED stock
       ELSE IF ~spend_points_ok(ledger, defaultHist, author, POINT_SHOP_PRICE)
       THEN LedgerStep(ledger) /\ Did("shop_buy", "Insufficient", author, index)
            /\ UNCHANGED stock
       ELSE /\ LedgerStep(spend_points(ledger, defaultHist, author, POINT_SHOP_PRICE))
            /\ stock' = [stock EXCEPT ![index] = IF @ > 0 THEN @ - 1 ELSE 0]
            /\ Did("shop_buy", "ok", author, index)
    /\ UNCHANGED <<member_roles, buyPend, miniViews, debits>>

InitLedger ==
    InitGame([users |-> LedgerUsers, lobby |-> 0, panels |-> 0, starts |-> 1,
              pending |-> 1, rviews |-> 1, selects |-> 1],
             Arrivals(assign_slot(NewRoster, HostUser, 1), 2, 2))

\* the steps that take the match to its result view write no field of the stats
\* file and read none, so they commute with the handlers of these cogs:
\* SpecLedger runs them first
MatchFirst == nOps = 0

NextLedger ==
    \/ \E a \in Users, ms \in Members, n \in TypedAmounts : grant_points(a, ms, n)
    \/ \E a \in Users, ms \in Members, n \in TypedAmounts : revoke_points(a, ms, n)
    \/ \E a \in Users, m \in Users, n \in TypedAmounts : transfer_points(a, m, n)
    \/ \E a \in Users, n \in TypedAmounts, c \in BOOLEAN, w \in BOOLEAN : gamble(a, n, c, w)
    \/ \E a \in Users, d \in BOOLEAN : attendance(a, d)
    \/ \E a \in Users : reset_all_points(a)
    \/ \E a \in Users, g \in MiniGames, c \in BOOLEAN : start_minigame(a, g, c)
    \/ \E v \in BagToSet(miniViews), p \in Users, h \in 0 .. 3 : resolve_minigame(v, p, h)
    \/ \E v \in BagToSet(miniViews) : resolve_resume(v)
    \/ \E m \in Users, i \in 0 .. NumTiers : buy(m, i)
    \/ \E e \in BagToSet(buyPend), g \in BOOLEAN : buy_resume(e, g)
    \/ \E a \in Users, q \in 0 .. 1 : point_shop_stock(a, 1, q)
    \/ \E a \in Users, i \in 0 .. 1 : point_shop_buy(a, i)
    \/ MatchFirst /\ start(HostUser)
    \/ MatchFirst /\ \E f \in flows : select_c1(HostUser, f, 1)
    \/ MatchFirst /\ \E f \in flows : select_c2(HostUser, f, 2)
    \/ MatchFirst /\ \E e \in BagToSet(pend) : start_draft(e, 1)
    \/ team1_win(HostUser)
    \/ team2_win(HostUser)
    \/ result_resume

SpecLedger == InitLedger /\ [][NextLedger]_vars


\* ------------------------------------------------------- SpecHistory
\* update_result_dual and add_points called on a stats file that holds, for
\* each member, no record or a record whose history is close to HISTORY_MAX.
\* The file outlives the process, so such a file is what a process can find.

\* the record of a member after n recorded matches, every (k+1)-th of them won
HistRec(n, k) ==
    LET h == [i \in 1 .. n |-> IF i % (k + 1) = 0 THEN 1 ELSE 0]
        w == Cardinality({i \in 1 .. n : h[i] = 1})
    IN  [present |-> TRUE, pts |-> 0, played |-> n, wins |-> w, losses |-> n - w,
         hist |-> h]

HistRecords ==
    {NoRec} \cup {HistRec(n, k) : n \in (HISTORY_MAX - HistBelow) .. HISTORY_MAX,
                                  k \in 1 .. HistPatterns}

InitHistory ==
    \E L \in [1 .. HistUsers -> HistRecords] :
        InitStats([users |-> HistUsers, lobby |-> 0, panels |-> 0, starts |-> 0,
                   pending |-> 0, rviews |-> 0, selects |-> 0], NewRoster, L)

\* update_result_dual(u, won)
call_update_result_dual(u, won) ==
    /\ nOps < HistOps
    /\ nOps' = nOps + 1
    /\ ledger' = update_result_dual(ledger, defaultHist, u, won)
    /\ defaultHist' = update_result_default(ledger, defaultHist, u, won)
    /\ Did("update_result_dual", "ok", u, IF won THEN 1 ELSE 0)
    /\ UNCHANGED <<cfg, gameVars, viewVars, nLobby, regVars,
                   member_roles, buyPend, miniViews, stock, debits>>

\* add_points(u, amount)
call_add_points(u, amount) ==
    /\ nOps < HistOps
    /\ nOps' = nOps + 1
    /\ ledger' = add_points(ledger, defaultHist, u, amount)
    /\ Did("add_points", "ok", u, amount)
    /\ UNCHANGED <<cfg, gameVars, viewVars, defaultHist, nLobby, regVars,
                   member_roles, buyPend, miniViews, stock, debits>>

NextHistory ==
    \/ \E u \in Users, won \in BOOLEAN : call_update_result_dual(u, won)
    \/ \E u \in Users, a \in {WIN_REWARD, LOSE_REWARD} : call_add_points(u, a)

SpecHistory == InitHistory /\ [][NextHistory]_vars

\* --------------------------------------------------------- SpecCrowd
\* One run of the process on an empty stats file in which more members than
\* HISTORY_MAX get their first record: members are paid out in ascending id
\* order, ten to a match with the first five of a match winning, and the last
\* member's record is created by add_points (an attendance) at any moment.
CrowdUsers == HISTORY_MAX + 2

InitCrowd ==
    InitStats([users |-> CrowdUsers, lobby |-> 0, panels |-> 0, starts |-> 0,
               pending |-> 0, rviews |-> 0, selects |-> 0], NewRoster,
              [u \in 1 .. CrowdUsers |-> NoRec])

\* update_result_dual for the next member without a record
crowd_update_result_dual(u) ==
    /\ u < CrowdUsers
    /\ ~ledger[u].present
    /\ \A v \in 1 .. (u - 1) : ledger[v].present
    /\ LET won == ((u - 1) % NUM_SLOTS) < (NUM_SLOTS \div 2)
       IN  /\ ledger' = update_result_dual(ledger, defaultHist, u, won)
           /\ defaultHist' = update_result_default(ledger, defaultHist, u, won)
           /\ Did("update_result_dual", "ok", u, IF won THEN 1 ELSE 0)
    /\ UNCHANGED <<cfg, gameVars, viewVars, nLobby, regVars, shopVars>>

\* add_points for the last member, whose record it creates
crowd_add_points(u) ==
    /\ u = CrowdUsers
    /\ ~ledger[u].present
    /\ ledger' = add_points(ledger, defaultHist, u, DAILY_REWARD)
    /\ Did("add_points", "ok", u, DAILY_REWARD)
    /\ UNCHANGED <<cfg, gameVars, viewVars, defaultHist, nLobby, regVars, shopVars>>

NextCrowd ==
    \/ \E u \in Users : crowd_update_result_dual(u)
    \/ \E u \in Users : crowd_add_points(u)

SpecCrowd == InitCrowd /\ [][NextCrowd]_vars


\* ================================================================ claims
\* C1: no user is at the same time in a slot and on the waitlist, after any
\* sequence of join, wait, leave, kick, replace and the draft handlers
C1_SlotsWaitlistDisjoint ==
    \A u \in Users : ~(u \in participants(Roster) /\ InSeq(u, waitlist))
\* C2: slots and user_to_slot agree: slots[s] = u exactly when user_to_slot[u] = s
C2_SlotsAgree ==
    \A u \in Users, n \in 1 .. NUM_SLOTS :
        (slots[n] = u) <=> (u \in DOMAIN user_to_slot /\ user_to_slot[u] = n)
ResultOps == {"team1_win", "team2_win", "cancel_game"}

\* C4: a result is accepted at most once: an accepted declaration or cancel
\* finds finished false and sets it, finished never becomes false again, and
\* once finished every press of a result button is rejected (as already
\* finished when the presser is the host or an admin) and changes no ledger
\* record
C4_ResultOnce ==
    [][/\ finished => finished'
       /\ (last'.op \in ResultOps /\ last'.res = "ok") => (~finished /\ finished')
       /\ (finished /\ last'.op \in ResultOps)
             => (last'.res \in {"AlreadyFinished", "Forbidden"} /\ UNCHANGED ledgerVars)
       /\ \A a \in Users :
             (finished /\ is_host_or_admin(a)
                /\ (team1_win(a) \/ team2_win(a) \/ cancel_game(a)))
             => last'.res = "AlreadyFinished"]_vars

\* C4 acts: a second declaration was rejected while the handler of the accepted
\* one is still suspended at edit_message, with points already paid
C4_Witness ==
    /\ finished
    /\ last.op \in {"team1_win", "team2_win"} /\ last.res = "AlreadyFinished"
    /\ BagIn(Suspended("result", NoPrompt), pend)
    /\ \E u \in Users : ledger[u].pts > 0

\* a ledger record after one more match with the given reward
Credited(rec, reward, won) ==
    [present |-> TRUE, pts |-> rec.pts + reward, played |-> rec.played + 1,
     wins |-> rec.wins + (IF won THEN 1 ELSE 0),
     losses |-> rec.losses + (IF won THEN 0 ELSE 1),
     hist |-> Append(rec.hist, IF won THEN 1 ELSE 0)]

Counters(rec) == [pts |-> rec.pts, played |-> rec.played, wins |-> rec.wins,
                  losses |-> rec.losses]

\* C5: in the scenario (ten joined, two captains, draft completed, no
\* administrative edits) an accepted win declaration for team w finds five
\* members on each team, gives each member of team w 5 points and one recorded
\* win, each member of the other team 3 points and one recorded loss, and
\* changes no other ledger record
C5_ScenarioPayout ==
    [][(last'.op \in {"team1_win", "team2_win"} /\ last'.res = "ok")
        => LET w == last'.arg
           IN  /\ Cardinality(SeqSet(teams[1])) = 5 /\ Cardinality(SeqSet(teams[2])) = 5
               /\ \A u \in Users :
                     ledger'[u] = IF InSeq(u, teams[w]) THEN Credited(ledger[u], 5, TRUE)
                                  ELSE IF InSeq(u, teams[3 - w])
                                       THEN Credited(ledger[u], 3, FALSE)
                                       ELSE ledger[u]]_vars

\* the part of C5 about points and counters only (the history left out)
C5_PointsAndCounters ==
    [][(last'.op \in {"team1_win", "team2_win"} /\ last'.res = "ok")
        => LET w == last'.arg
           IN  /\ Cardinality(SeqSet(teams[1])) = 5 /\ Cardinality(SeqSet(teams[2])) = 5
               /\ \A u \in Users :
                     Counters(ledger'[u]) =
                         IF InSeq(u, teams[w]) THEN Counters(Credited(ledger[u], 5, TRUE))
                         ELSE IF InSeq(u, teams[3 - w])
                              THEN Counters(Credited(ledger[u], 3, FALSE))
                              ELSE Counters(ledger[u])]_vars

\* C6: only an accepted win declaration changes a ledger record; every other
\* handler (join, leave, captain selection, draft start, pick, undo, draft
\* completion, kick, replace, cancel of the result, the timeout) leaves the
\* ledger as it is
C6_LedgerFrame ==
    [][ledger' # ledger
        => (last'.op \in {"team1_win", "team2_win"} /\ last'.res = "ok")]_vars

\* C6 acts: a member was kicked after points had been paid
C6_Witness ==
    /\ last.op = "kick" /\ last.res = "ok"
    /\ \E u \in Users : ledger[u].pts > 0

\* C7: under any interleaving, a pick that changes the session is made by the
\* captain of the team pick_order[draft_turn] (read when the pick acts) and
\* puts its target on that team
C7_PickByCaptainOnTurn ==
    [][(last'.op = "pick" /\ (last'.res = "ok" \/ draftVars' # draftVars))
        => /\ draft_turn < Len(pick_order)
           /\ LET t == pick_order[draft_turn + 1]
              IN  /\ last'.who = team_captains[t]
                  /\ teams' = [teams EXCEPT ![t] = Append(@, last'.arg)]]_vars

\* the available pool of the draft in progress (the list of the latest draft start)
Pool == IF available = <<>> THEN {} ELSE available[Len(available)]

\* C8: an accepted pick of t by the captain on turn appends t to that captain's
\* team, removes t from the pool, appends (team, t) to pick_history, adds 1 to
\* draft_turn and changes nothing else; a pick of a target that is not in the
\* pool is rejected and leaves teams, pool, pick_history and draft_turn as they
\* were
C8_PickEffects ==
    [][/\ (/\ last'.op = "pick" /\ last'.res = "ok"
           /\ draft_turn < Len(pick_order)
           /\ last'.who = team_captains[pick_order[draft_turn + 1]])
          => LET t == pick_order[draft_turn + 1]
                 uid == last'.arg
             IN  /\ teams' = [teams EXCEPT ![t] = Append(@, uid)]
                 /\ uid \in Pool /\ Pool' = Pool \ {uid}
                 /\ pick_history' = Append(pick_history, <<t, uid>>)
                 /\ draft_turn' = draft_turn + 1
                 /\ UNCHANGED <<host_id, rosterVars, team_captains, pick_order,
                                finished, ledgerVars>>
       /\ \A p \in prompts, a \in Users, uid \in Users :
             (uid \notin Pool /\ select_callback(p, a, uid))
             => /\ last'.res # "ok"
                /\ UNCHANGED <<teams, available, pick_history, draft_turn>>]_vars

\* C9: pick_order is empty (no draft started) or an 8-element snake sequence
\* [A,B,B,A,A,B,B,A] with {A,B} = {1,2}: the first-picking team holds positions
\* 1, 4, 5, 8 and the other team positions 2, 3, 6, 7
C9_SnakeOrder ==
    \/ pick_order = <<>>
    \/ /\ Len(pick_order) = 8
       /\ \E A \in {1, 2} :
             \A i \in 1 .. 8 :
                 pick_order[i] = IF i \in {1, 4, 5, 8} THEN A ELSE 3 - A

\* C9 acts: a draft whose coin flip gave team 2 the first pick is under way
C9_Witness ==
    /\ pick_order # <<>> /\ pick_order[1] = 2
    /\ draft_turn > 0

\* the result control has been issued (finish_teams has run)
Completed == rvMade > 0

\* C10, first part: the draft becomes Complete exactly in a step in which a
\* draft start, a pick or an undo reaches send_draft_ui with draft_turn =
\* len(pick_order) or with an empty pool
C10_CompleteWhen ==
    [][~Completed
        => (Completed' <=>
              /\ last'.op \in {"start_draft", "pick_resume", "undo_resume"}
              /\ last'.res = "ok"
              /\ (draft_turn' = Len(pick_order') \/ Pool' = {}))]_vars

\* C10, second part: when ten slot occupants are drafted without
\* administrative edits, the draft becomes Complete with 8 picks net of undos
\* and 5 members on each team
C10_FullDraft ==
    [][(/\ ~Completed /\ Completed'
        /\ nPanels = 0 /\ nStarts = 1
        /\ Cardinality(Pool' \cup SeqSet(teams'[1]) \cup SeqSet(teams'[2])) = 10)
        => /\ Len(pick_history') = 8
           /\ Len(teams'[1]) = 5 /\ Len(teams'[2]) = 5]_vars

\* C10, third part: once the draft is Complete no pick changes the team rosters
C10_Frozen ==
    [][(Completed /\ last'.op = "pick") => teams' = teams]_vars

\* C10: the draft becomes Complete exactly when a draft start, a pick or an
\* undo ends with draft_turn = len(pick_order) or an empty pool; with ten slot
\* occupants and no administrative edits that is after 8 picks net of undos
\* with 5 members on each team; and after completion no pick changes the team
\* rosters
C10_DraftCompletion == C10_CompleteWhen /\ C10_FullDraft /\ C10_Frozen

\* C11: in every reachable state draft_turn lies between 0 and the length of
\* pick_order
C11_DraftTurnRange == 0 <= draft_turn /\ draft_turn <= Len(pick_order)

\* C12: an undo by someone who is neither host nor administrator, and an undo
\* with empty pick_history, leave the session unchanged; an accepted undo comes
\* from the host or an administrator, removes the last entry of pick_history,
\* takes its identity off its team, returns it to the pool and lowers
\* draft_turn by exactly 1
C12_UndoEffects ==
    [][ /\ \A p \in prompts, a \in Users :
              (undo_pick(p, a) /\ (~is_host_or_admin(a) \/ pick_history = <<>>))
                  => (last'.res # "ok" /\ UNCHANGED <<gameVars, available>>)
        /\ (last'.op = "undo" /\ (last'.res = "ok" \/ draftVars' # draftVars))
              => /\ last'.res = "ok"
                 /\ is_host_or_admin(last'.who)
                 /\ pick_history # <<>>
                 /\ LET e == pick_history[Len(pick_history)]
                    IN  /\ pick_history' = SubSeq(pick_history, 1, Len(pick_history) - 1)
                        /\ teams' = [teams EXCEPT ![e[1]] = SeqRemove(@, e[2])]
                        /\ ~InSeq(e[2], teams'[e[1]])
                        /\ Pool' = Pool \cup {e[2]}
                        /\ draft_turn' = draft_turn - 1 ]_vars

\* C12: undos repeated until pick_history is empty leave the draft as it was at
\* draft start: each team is one member, the two of them are the captains,
\* nobody in the pool is on a team, everyone else who was on a team or in the
\* pool is in the pool, and draft_turn is 0
C12_UndoToStart ==
    [][ (last'.op = "undo" /\ last'.res = "ok" /\ pick_history' = <<>>)
            => /\ Len(teams'[1]) = 1 /\ Len(teams'[2]) = 1
               /\ SeqSet(teams'[1]) \cup SeqSet(teams'[2]) = SeqSet(team_captains)
               /\ Pool' \cap (SeqSet(teams'[1]) \cup SeqSet(teams'[2])) = {}
               /\ Pool' = (assigned \cup Pool \cup {last'.arg}) \ SeqSet(team_captains)
               /\ draft_turn' = 0 ]_vars

C12_Undo == C12_UndoEffects /\ C12_UndoToStart

\* C13: in a state reached right after a successful pick of t by captain c
\* (its handler has run to its end and a prompt is displayed), an undo on a
\* displayed prompt brings up a prompt for c's team with t in the pool, and
\* c's pick of t on it gives back the teams, pool, pick_history and draft_turn
\* of the state before the undo
C13_RoundTrip ==
    (last.op = "pick_resume" /\ last.res = "ok" /\ pend = EmptyBag /\ pick_history # <<>>)
        => \A p \in prompts :
               LET S == DraftOf(p.d)
                   e == pick_history[Len(pick_history)]
                   U == undo_effect(S)
               IN  /\ ~draft_complete(U.av, U.turn, pick_order)
                   /\ pick_order[U.turn + 1] = e[1]
                   /\ e[2] \in U.av
                   /\ pick_effect(U, pick_order[U.turn + 1], e[2]) = S

\* C14: whenever team_captains is set, the two captains are distinct and both
\* occupy a slot at that moment; a selection that would make it otherwise is
\* rejected and leaves team_captains unchanged
C14_CaptainsValid ==
    [][ /\ team_captains' # team_captains
              => /\ Len(team_captains') = 2
                 /\ team_captains'[1] # team_captains'[2]
                 /\ SeqSet(team_captains') \subseteq participants(Roster)
        /\ \A a \in Users, f \in flows, c \in Users :
              (select_c2(a, f, c)
                   /\ ({f.c1, c} \subseteq participants(Roster) => f.c1 = c))
                  => (last'.res # "ok" /\ team_captains' = team_captains) ]_vars

C16_FreshDraft ==
    [][ (\E e \in BagToSet(pend), first \in 1 .. 2 : start_draft(e, first))
            => /\ teams' = << <<team_captains'[1]>>, <<team_captains'[2]>> >>
               /\ draft_turn' = 0
               /\ pick_history' = <<>> ]_vars

\* C17: a kick never takes a current captain off a team list or out of its
\* slot, whenever the kick panel was opened and wherever a replace has put the
\* captain
C17_KickSparesCaptains ==
    [][ \A a \in Users, uid \in Users :
            (do_kick(a, uid) /\ InSeq(uid, team_captains))
                => (teams' = teams /\ slots' = slots) ]_vars

\* C18: after an accepted kick of a member x who is not a captain, x holds no
\* slot, is not in the waitlist and is on neither team; and when x held slot s
\* and the waitlist was not empty, the member who headed the waitlist holds
\* slot s, holds no other slot and has left the waitlist
C18_KickEffects ==
    [][ \A a \in Users, x \in Users :
            (do_kick(a, x) /\ is_host_or_admin(a) /\ ~InSeq(x, team_captains))
                => /\ x \notin participants(Roster')
                   /\ x \notin DOMAIN user_to_slot'
                   /\ ~InSeq(x, waitlist')
                   /\ ~InSeq(x, teams'[1]) /\ ~InSeq(x, teams'[2])
                   /\ (x \in DOMAIN user_to_slot /\ waitlist # <<>>)
                          => LET s == user_to_slot[x]
                                 h == Head(waitlist)
                             IN  /\ {i \in DOMAIN slots' : slots'[i] = h} = {s}
                                 /\ h \in DOMAIN user_to_slot'
                                 /\ user_to_slot'[h] = s
                                 /\ ~InSeq(h, waitlist') ]_vars

\* C19: a replace on team T that takes out x, with an incoming member y of the
\* opposing team, swaps the two: afterwards x is on the opposing team only, y
\* is on T only, both teams have the size they had, and the slots and the
\* waitlist are as they were
C19_SwapEffects ==
    [][ \A a \in Users, v \in replaceViews :
            (do_replace(a, v) /\ is_host_or_admin(a) /\ v.src = "T"
                /\ InSeq(v.out, teams[v.team_no]) /\ InSeq(v.inn, teams[3 - v.team_no]))
                => /\ InSeq(v.out, teams'[3 - v.team_no])
                   /\ ~InSeq(v.out, teams'[v.team_no])
                   /\ InSeq(v.inn, teams'[v.team_no])
                   /\ ~InSeq(v.inn, teams'[3 - v.team_no])
                   /\ Len(teams'[1]) = Len(teams[1]) /\ Len(teams'[2]) = Len(teams[2])
                   /\ UNCHANGED rosterVars ]_vars

\* C20: an accepted replace of X on a team by a waiting member Y, issued while
\* the waitlist holds WAITLIST_MAX entries, drops X: afterwards X is on no team,
\* in no slot and not in the waitlist, and the head of the remaining waitlist
\* has been promoted into the slot X held; issued while the waitlist is not
\* full, it appends X to the tail of the waitlist
C20_ReplaceFromWaitlist ==
    [][ \A a \in Users, v \in replaceViews :
            (do_replace(a, v) /\ is_host_or_admin(a) /\ v.src = "W"
                /\ InSeq(v.out, teams[v.team_no]) /\ InSeq(v.inn, waitlist))
                => LET X == v.out
                       rest == SeqRemove(waitlist, v.inn)
                   IN  IF Len(waitlist) = WAITLIST_MAX
                       THEN /\ ~InSeq(X, teams'[1]) /\ ~InSeq(X, teams'[2])
                            /\ X \notin DOMAIN user_to_slot'
                            /\ X \notin participants(Roster')
                            /\ ~InSeq(X, waitlist')
                            /\ (X \in DOMAIN user_to_slot /\ rest # <<>>)
                                   => slots'[user_to_slot[X]] = Head(rest)
                       ELSE waitlist' = Append(rest, X) ]_vars

\* the results with which an operation reports a failure
Failures ==
    {"Forbidden", "InvalidOutgoing", "InvalidIncoming", "AlreadyFinished",
     "NotYourTurn", "AlreadyPicked", "NothingToUndo", "TooFew", "AlreadyJoined",
     "AlreadyWaiting", "WaitlistFull"}

\* C21: an operation that reports a failure leaves the session as it was: the
\* roster, the captains, the teams, the draft, the pool and the ledger; a
\* replace rejected for a stale incoming reference leaves the outgoing member
\* on its team
C21_FailureFrame ==
    [][ last'.res \in Failures
            => UNCHANGED <<gameVars, available, ledgerVars>> ]_vars

\* C22: assign_slot(u, n) fails and leaves slots, user_to_slot and the waitlist
\* as they were when n is outside 1 .. 10 or slot n is held by another
\* identity; assign_slot(u, n) with u already in slot n succeeds and u stays
\* in slot n
C22_AssignSlotRejects ==
    [][ last'.op = "assign_slot"
            => LET u == last'.who
                   n == last'.arg
               IN  /\ (n \notin 1 .. NUM_SLOTS \/ slots[n] \notin {None, u})
                          => (last'.res # "ok" /\ UNCHANGED rosterVars)
                   /\ (n \in 1 .. NUM_SLOTS /\ slots[n] = u)
                          => /\ last'.res = "ok"
                             /\ slots'[n] = u
                             /\ u \in DOMAIN user_to_slot' /\ user_to_slot'[u] = n ]_vars

\* an assign_slot was refused for an occupied slot while someone waits
C22_Witness ==
    /\ last.op = "assign_slot" /\ last.res = "SlotOccupied"
    /\ waitlist # <<>>

C25_AutoPromote ==
    [][ (last'.op \in {"kick", "leave"} /\ last'.res = "ok")
            => LET x == IF last'.op = "kick" THEN last'.arg ELSE last'.who
                   s == freed_slot(Roster, x)
                   w == SeqRemove(waitlist, x)
               IN  s # None
                       => /\ \A i \in DOMAIN slots \ {s} : slots'[i] = slots[i]
                          /\ IF w # <<>>
                             THEN /\ {i \in DOMAIN slots' : slots'[i] = Head(w)} = {s}
                                  /\ waitlist' = Tail(w)
                             ELSE slots'[s] = None /\ waitlist' = w ]_vars

\* C26: with only assign_slot, add_waitlist and remove_from_slot called, in any
\* order and with any arguments, on a fresh Game, no identity holds a slot and
\* sits in the waitlist at the same time
C26_MethodsDisjoint ==
    /\ participants(Roster) \cap SeqSet(waitlist) = {}
    /\ DOMAIN user_to_slot \cap SeqSet(waitlist) = {}

\* an assign_slot succeeded with two slots held and four identities waiting
C26_Witness ==
    /\ last.op = "assign_slot" /\ last.res = "ok"
    /\ Cardinality(participants(Roster)) = 2
    /\ Len(waitlist) = WAITLIST_MAX - 1

\* C27: a join (button or command) by an identity that holds no slot seats it
\* in the lowest empty slot, and only with all ten slots occupied offers it to
\* the waitlist instead; a join by an identity that holds a slot changes
\* nothing
C27_QuickJoin ==
    [][ \A u \in Users :
            (join(u) \/ join_command(u))
                => IF u \in participants(Roster) \/ u \in DOMAIN user_to_slot
                   THEN UNCHANGED gameVars
                   ELSE LET free == {i \in 1 .. NUM_SLOTS : slots[i] = None}
                        IN  IF free # {}
                            THEN LET n == CHOOSE i \in free : \A j \in free : i <= j
                                 IN  /\ slots' = [slots EXCEPT ![n] = u]
                                     /\ u \in DOMAIN user_to_slot' /\ user_to_slot'[u] = n
                                     /\ waitlist' = SeqRemove(waitlist, u)
                            ELSE /\ UNCHANGED <<slots, user_to_slot>>
                                 /\ waitlist' \in {waitlist, Append(waitlist, u)} ]_vars

\* the sessions of the registry that occupy channel ch
SessionsIn(ch) == {i \in DOMAIN games : games[i].channel_id = ch}

\* C28: at every moment at most one session of the registry has a given channel
\* id, channel_to_game[c] refers to a session present in games whose channel_id
\* is c, and no session holds an id the counter has yet to hand out; a
\* start_lobby that succeeds hands out the counter's value and advances the
\* counter, and a start_lobby in a channel that has a session in the registry
\* is refused and leaves games, channel_to_game and game_counter unchanged.
C28_RegistryInvariants ==
    /\ [](/\ \A ch \in Channels : Cardinality(SessionsIn(ch)) <= 1
          /\ \A ch \in DOMAIN channel_to_game :
                 /\ channel_to_game[ch] \in DOMAIN games
                 /\ games[channel_to_game[ch]].channel_id = ch
          /\ \A i \in DOMAIN games : i < game_counter /\ games[i].id = i)
    /\ [][ last'.op = "start_lobby" =>
             IF SessionsIn(last'.arg) # {}
             THEN /\ last'.res = "AlreadyActive"
                  /\ UNCHANGED <<games, channel_to_game, game_counter>>
             ELSE /\ last'.res = "ok"
                  /\ game_counter' = game_counter + 1
                  /\ DOMAIN games' = DOMAIN games \cup {game_counter}
                  /\ channel_to_game'[last'.arg] = game_counter ]_vars

\* C29: the first session stops occupying its channel on the end action and
\* once a result (win or cancel) has been declared: a start_lobby in its channel
\* that runs after either, with no later session registered for the channel,
\* succeeds and creates a new session.
C29_ChannelReleased ==
    [][ ( /\ last'.op = "start_lobby"
          /\ last'.arg = SessionChannel
          /\ finished \/ SessionId \notin DOMAIN games
          /\ SessionsIn(SessionChannel) \subseteq {SessionId} )
        => /\ last'.res = "ok"
           /\ game_counter \in DOMAIN games'
           /\ games'[game_counter].channel_id = SessionChannel ]_vars

\* the end half of C29 alone: after the end action the channel is free
C29_EndReleases ==
    [][ ( /\ last'.op = "start_lobby"
          /\ last'.arg = SessionChannel
          /\ SessionId \notin DOMAIN games
          /\ SessionsIn(SessionChannel) = {} )
        => /\ last'.res = "ok"
           /\ game_counter \in DOMAIN games' ]_vars

\* C30: the result-lock timeout has no side effects on the session. When it
\* fires after a result was declared it changes no field of the game, no view
\* and no ledger entry; when it fires with no result declared it disables the
\* result buttons of one view and leaves finished false and the teams, slots,
\* waitlist and ledger as they were.
C30_TimeoutFrame ==
    [][ last'.op = "result_timeout" =>
          /\ UNCHANGED <<gameVars, ledgerVars, regVars, shopVars>>
          /\ UNCHANGED <<flows, nStarts, available, prompts, pend, kickViews,
                         replaceViews, nPanels, rvMade>>
          /\ IF finished
             THEN last'.res = "finished" /\ rvLive' = rvLive
             ELSE /\ last'.res = "locked"
                  /\ finished' = FALSE
                  /\ rvLive' = IF rvLive = 0 THEN 0 ELSE rvLive - 1 ]_vars

\* a timeout has fired on a drafted session with no result declared and has
\* disabled the last enabled result view
C30_Witness ==
    /\ last.op = "result_timeout"
    /\ last.res = "locked"
    /\ ~finished
    /\ rvMade > 0
    /\ rvLive = 0
    /\ Len(team_captains) = 2

\* C31: a result (win or cancel) is accepted only while the draft is Complete:
\* in every step in which a declaration is accepted the two captains are set
\* and either draft_turn = len(pick_order) or the pool of the draft in progress
\* is empty.
C31_DeclareWhenComplete ==
    [][ (last'.op \in ResultOps /\ last'.res = "ok")
        => /\ Len(team_captains) = 2
           /\ (draft_turn = Len(pick_order) \/ Pool = {}) ]_vars

\* the positive amounts the handlers pass to spend_points, and the amounts
\* (with their negatives) tried on add_points
SpendAmounts ==
    LedgerAmounts \cup {mini_cost(g) : g \in MiniGames}
        \cup {COIN_EXTRA_LOSS_ON_MISS, DICE3_FAIL_TOTAL_LOSS - DICE3_ENTRY_COST}
        \cup {TierPrice(i) : i \in 1 .. NumTiers}
AddAmounts == SpendAmounts \cup {0 - a : a \in SpendAmounts} \cup {WIN_REWARD, LOSE_REWARD}

\* C32: every stored balance is a non-negative integer in every reachable state
\* of the stats file; on such a file spend_points with a positive amount returns
\* false and stores nothing exactly when the balance is below the amount, and
\* otherwise subtracts exactly the amount from that member's balance and
\* changes no other record; add_points never stores a balance below 0.
C32_BalanceNeverNegative ==
    \A u \in Users :
        /\ ledger[u].pts \in Nat
        /\ \A a \in SpendAmounts :
               LET before == get_points(ledger, defaultHist, u)
                   ok == spend_points_ok(ledger, defaultHist, u, a)
                   after == spend_points(ledger, defaultHist, u, a)
               IN  /\ ok <=> ~(before < a)
                   /\ ~ok => after = ledger
                   /\ ok => /\ after[u].pts = before - a
                            /\ \A v \in Users \ {u} : after[v] = ledger[v]
        /\ \A a \in AddAmounts : add_points(ledger, defaultHist, u, a)[u].pts >= 0

\* a transfer was refused for a member whose balance is positive but below the
\* amount, while a match has paid its rewards
C32_Witness ==
    /\ last.op = "transfer"
    /\ last.res = "Insufficient"
    /\ ledger[last.who].pts > 0
    /\ ledger[last.who].pts < last.arg
    /\ finished


\* C33: a user's stored history never holds more than HISTORY_MAX (200)
\* entries.
C33_HistoryCapped ==
    \A u \in Users : Len(ledger[u].hist) <= HISTORY_MAX

\* C33, second half: recording an outcome for a record whose history holds
\* HISTORY_MAX entries stores the old history without its first entry, followed
\* by the new outcome.
C33_DropsOldest ==
    [][ (last'.op = "update_result_dual"
         /\ ledger[last'.who].present
         /\ Len(ledger[last'.who].hist) = HISTORY_MAX)
        => ledger'[last'.who].hist = Append(Tail(ledger[last'.who].hist), last'.arg) ]_vars


\* C34: in every reachable state the two team lists are disjoint and neither
\* holds an identity twice, whatever picks, undos, kicks and replaces were
\* made (a replace with a not-yet-picked participant during the draft included)
C34_TeamsDisjoint ==
    /\ SeqSet(teams[1]) \cap SeqSet(teams[2]) = {}
    /\ \A t \in 1 .. 2 : Cardinality(SeqSet(teams[t])) = Len(teams[t])

\* C35: in every reachable state every member of teams[1] or teams[2] is a
\* current slot occupant (after a drafted player's leave, a kick, and a replace
\* from the waitlist as well)
C35_TeamsAreOccupants ==
    assigned \subseteq participants(Roster)

\* C36: while a draft is in progress (a DraftView is displayed), every
\* identity in the available list its select works on is a current slot
\* occupant, is on neither team and is not a captain
C36_PoolPickable ==
    \A p \in prompts :
        available[p.d] \subseteq
            (participants(Roster) \ (assigned \cup SeqSet(team_captains)))

\* C37: in every reachable state draft_turn is the length of pick_history and
\* the i-th entry of pick_history carries the team pick_order[i]
C37_HistoryFollowsOrder ==
    /\ draft_turn = Len(pick_history)
    /\ \A i \in 1 .. Len(pick_history) :
          /\ i <= Len(pick_order)
          /\ pick_history[i][1] = pick_order[i]


\* C37, first half: draft_turn is the length of pick_history
C37_TurnIsHistoryLength ==
    draft_turn = Len(pick_history)


\* C38: an accepted win declaration gives every member of the two team lists
\* exactly one recorded outcome and one reward (the win reward or the loss
\* reward, never both) and gives nobody else anything, also after replaces
C38_OneRewardEach ==
    [][ (last'.op \in {"team1_win", "team2_win"} /\ last'.res = "ok")
        => \A u \in Users :
              IF u \in assigned
              THEN /\ ledger'[u].played = ledger[u].played + 1
                   /\ ledger'[u].pts - ledger[u].pts \in {WIN_REWARD, LOSE_REWARD}
              ELSE /\ ledger'[u].played = ledger[u].played
                   /\ ledger'[u].pts = ledger[u].pts ]_vars


\* C39: every stored record has participation = wins + losses and a history of
\* exactly min(participation, HISTORY_MAX) entries, also a record first created
\* in the same run of the process as earlier recordings
C39_HistoryLength ==
    \A u \in Users :
        ledger[u].present
            => /\ ledger[u].played = ledger[u].wins + ledger[u].losses
               /\ Len(ledger[u].hist) = (IF ledger[u].played <= HISTORY_MAX
                                         THEN ledger[u].played ELSE HISTORY_MAX)

\* C39, the counters: recording an outcome for u leaves every other stored
\* record as it was and adds 1 to u's participation count and to exactly one
\* of u's win and loss counts
C39_FrameCounts ==
    [][ last'.op = "update_result_dual"
        => LET u == last'.who
           IN  /\ \A v \in Users \ {u} : ledger'[v] = ledger[v]
               /\ ledger'[u].played = ledger[u].played + 1
               /\ ledger'[u].wins + ledger'[u].losses = ledger[u].wins + ledger[u].losses + 1
               /\ ledger'[u].wins >= ledger[u].wins
               /\ ledger'[u].losses >= ledger[u].losses
               /\ ledger'[u].pts = ledger[u].pts ]_vars


\* C40: for every member and role tier the debits of the tier's price that
\* were not refunded number at most one, under any interleaving of the
\* member's buy commands
C40_ChargedOnce ==
    \A m \in Users, i \in 1 .. NumTiers : debits[m][i] <= 1

\* C40, the refund: a buy whose role grant fails adds the tier's price back to
\* the member's balance and changes no other record
C40_RefundRestores ==
    [][ (last'.op = "buy_resume" /\ last'.res = "refunded")
        => /\ ledger'[last'.who].pts = ledger[last'.who].pts + TierPrice(last'.arg)
           /\ \A v \in Users \ {last'.who} : ledger'[v] = ledger[v] ]_vars

=============================================================================
